---- MODULE Spec2Model ----
(***************************************************************************)
(* UART <-> MQTT bridge firmware: the Coordinator callbacks of main.c, the *)
(* LED control task of led_handler.c and the parts of the uart_comm,       *)
(* wifi_conn and mqtt_comm components they call.                           *)
(*                                                                         *)
(* C strings are sequences of one-character strings; NUL is the zero byte. *)
(* A buffer that holds a C string is modelled by the characters before its *)
(* terminator.                                                             *)
(***************************************************************************)
EXTENDS Integers, Sequences, FiniteSets, TLC

\* ---------------------------------------------------------------- bounds
\* frames the receive task hands to its callback in one run
MaxFrames == 1
\* WiFi and IP events handled in one run
MaxWifiEvents == 3
\* MQTT client events handled in one run
MaxMqttEvents == 3
\* commands an arbitrary producer may have waiting in the LED queue (SpecLed)
MaxLedBacklog == 3

\* WiFi and IP events handled in a run that fills the LED queue (SpecBacklog)
MaxBacklogWifiEvents == 9
\* WiFi and IP events handled in a run of repeated disconnections
\* (SpecRetries)
MaxRetryWifiEvents == 12
\* WiFi and IP events handled in a run that watches deliveries (SpecDelivery)
\* or both relay paths (SpecRelay)
MaxDeliveryWifiEvents == 2
\* status events of the MQTT client in a run of the session (SpecSession)
\* and in a run without the LED task (SpecDegraded)
MaxSessionEvents == 1
\* MQTT events handled in a run that watches the serial port (SpecTransmit)
\* or both relay paths (SpecRelay)
MaxTransmitEvents == 2

\* ------------------------------------------------------ program constants
QueueLength == 15
FullTopicSize == 128
SubTopicSize == 64
MacStrSize == 18
PublishQos == 1
PublishRetain == 0
SubscribeQos == 1
WIFI_CONN_MAX_RETRY == 10

NUL == "NUL"

LED_CMD_OFF == "LED_CMD_OFF"
LED_CMD_WIFI_CONNECTING == "LED_CMD_WIFI_CONNECTING"
LED_CMD_WIFI_CONNECTED == "LED_CMD_WIFI_CONNECTED"
LED_CMD_MQTT_CONNECTED == "LED_CMD_MQTT_CONNECTED"
LED_CMD_UART_RX_RECEIVED == "LED_CMD_UART_RX_RECEIVED"
LED_CMD_MQTT_RX_RECEIVED == "LED_CMD_MQTT_RX_RECEIVED"
LED_CMD_ERROR == "LED_CMD_ERROR"

led_command_t ==
  { LED_CMD_OFF, LED_CMD_WIFI_CONNECTING, LED_CMD_WIFI_CONNECTED,
    LED_CMD_MQTT_CONNECTED, LED_CMD_UART_RX_RECEIVED,
    LED_CMD_MQTT_RX_RECEIVED, LED_CMD_ERROR }

WIFI_CONN_STATUS_DISCONNECTED == "WIFI_CONN_STATUS_DISCONNECTED"
WIFI_CONN_STATUS_CONNECTING == "WIFI_CONN_STATUS_CONNECTING"
WIFI_CONN_STATUS_CONNECTED_GOT_IP == "WIFI_CONN_STATUS_CONNECTED_GOT_IP"
WIFI_CONN_STATUS_CONNECTION_FAILED == "WIFI_CONN_STATUS_CONNECTION_FAILED"

MQTT_CONN_STATUS_DISCONNECTED == "MQTT_CONN_STATUS_DISCONNECTED"
MQTT_CONN_STATUS_CONNECTING == "MQTT_CONN_STATUS_CONNECTING"
MQTT_CONN_STATUS_CONNECTED == "MQTT_CONN_STATUS_CONNECTED"
MQTT_CONN_STATUS_ERROR == "MQTT_CONN_STATUS_ERROR"

ESP_OK == "ESP_OK"
ESP_FAIL == "ESP_FAIL"
ESP_ERR_INVALID_ARG == "ESP_ERR_INVALID_ARG"

APP_MQTT_PUB_BASE_TOPIC == <<"p","u","b","/","d","a","t","a","/">>
APP_MQTT_SUB_BASE_TOPIC == <<"s","u","b","/","d","a","t","a","/">>

\* the fixed response frames of app_uart_rx_callback
MsgInvalidJson ==
  <<"E","r","r","o","r",":"," ","I","n","v","a","l","i","d"," ","J","S","O","N","\r","\n">>
MsgMissingFields ==
  <<"E","r","r","o","r",":"," ","M","i","s","s","i","n","g","/","I","n","v","a","l","i","d"," ",
    "'","t","o","p","i","c","'"," ","o","r"," ","'","p","a","y","l","o","a","d","'","\r","\n">>
MsgOkQueued ==
  <<"O","K",":"," ","S","e","n","t"," ","t","o"," ","M","Q","T","T"," ","Q","u","e","u","e","\r","\n">>
MsgPublishFailed ==
  <<"E","r","r","o","r",":"," ","F","a","i","l","e","d"," ","t","o"," ","s","e","n","d"," ",
    "t","o"," ","M","Q","T","T","\r","\n">>
MsgMqttDataPrefix == <<"M","Q","T","T"," ","D","a","t","a",":"," ">>
CRLF == <<"\r","\n">>

\* ------------------------------------------------------- C string library
Min(a, b) == IF a < b THEN a ELSE b

Take(s, n) == SubSeq(s, 1, Min(n, Len(s)))

Rep(c, n) == [i \in 1..n |-> c]

\* the byte at 1-based position i of a C string whose terminator follows s
CharAt(s, i) == IF i <= Len(s) THEN s[i] ELSE NUL

\* strlen: the number of bytes before the first zero byte
strlen(s) ==
  IF \E i \in 1..Len(s) : s[i] = NUL
    THEN (CHOOSE i \in 1..Len(s) :
            s[i] = NUL /\ \A j \in 1..(i - 1) : s[j] /= NUL) - 1
    ELSE Len(s)

\* the C string held in a byte buffer
CStr(s) == Take(s, strlen(s))

RECURSIVE strncmpFrom(_, _, _, _)
strncmpFrom(a, b, n, i) ==
  IF i > n THEN 0
  ELSE IF CharAt(a, i) /= CharAt(b, i) THEN 1
  ELSE IF CharAt(a, i) = NUL THEN 0
  ELSE strncmpFrom(a, b, n, i + 1)

\* strncmp: 0 when the first n bytes agree (or agree up to a common NUL)
strncmp(a, b, n) == strncmpFrom(a, b, n, 1)

\* snprintf(buf, size, "%s%s", a, b): at most size-1 bytes are stored
snprintf_ss(size, a, b) == Take(CStr(a) \o CStr(b), size - 1)

\* snprintf(buf, size, "MQTT Data: %.*s\r\n", prec, data): %.*s copies at
\* most prec bytes of data and stops at a zero byte
snprintf_mqtt_data(size, prec, data) ==
  Take(MsgMqttDataPrefix \o Take(CStr(data), prec) \o CRLF, size - 1)

HexDigit(n) ==
  <<"0","1","2","3","4","5","6","7","8","9","A","B","C","D","E","F">>[n + 1]

\* "%X" of one byte: no leading zero
Hex02X_NoPad(b) ==
  IF b < 16 THEN <<HexDigit(b)>> ELSE <<HexDigit(b \div 16), HexDigit(b % 16)>>

\* "%02X" of one byte
Hex02X(b) == <<HexDigit(b \div 16), HexDigit(b % 16)>>

\* ------------------------------------------------------------------ state
VARIABLES
  main_pc,                  \* position of app_main
  led_queue_created,        \* led_command_queue != NULL
  led_command_queue,        \* contents of the LED command queue
  led_task_started,         \* led_control_task exists
  received_cmd,             \* led_control_task: last command taken
  current_led_steady_state, \* led_control_task: logical steady state
  gpio_level,               \* output level of APP_LED_GPIO
  gpio_trace,               \* levels written while processing received_cmd
  s_wifi_event_group,       \* wifi_conn.c: "NULL" or "created"
  wifi_connected_bit,       \* WIFI_CONNECTED_BIT of s_wifi_event_group
  s_retry_num,              \* wifi_conn.c
  s_wifi_initialized,       \* wifi_conn.c
  wifi_status_callback,     \* wifi_conn.c s_status_callback is set
  wifi_drv,                 \* WiFi driver: off, start_pending, idle, connecting, got_ip
  mac,                      \* hardware address of the station interface
  mac_address_str,          \* main.c
  mqtt_sub_topic_str,       \* main.c
  s_client,                 \* mqtt_comm.c: "NULL" or "client"
  s_client_mutex,           \* mqtt_comm.c: "NULL", "free" or the holding task
  s_is_connected,           \* mqtt_comm.c
  s_is_initialized,         \* mqtt_comm.c
  mqtt_status_callback,     \* mqtt_comm.c s_status_callback is set
  s_data_callback,          \* mqtt_comm.c s_data_callback is set
  s_default_client_id,      \* mqtt_comm.c: generated client id is allocated
  mqtt_drv,                 \* esp-mqtt client: none, disconnected, connected
  s_uart_initialized,       \* uart_comm.c
  s_tx_mutex,               \* uart_comm.c: "NULL", "free" or the holding task
  s_rx_callback,            \* uart_comm.c s_rx_callback is set
  uart_rx_task,             \* uart_rx_task: none, created, running, deleted
  calls,                    \* calls made by the handler that ran last, in order
  n_connected_notified,     \* app_mqtt_status_callback(CONNECTED) invocations
  n_subscribe_requests,     \* mqtt_comm_subscribe calls
  events,                   \* events handled so far, per event source
  led_queue_src,            \* producer context of each queued LED command
  led_tried,                \* xQueueSend attempts of the handlers, in order
  led_taken,                \* commands of the handlers the LED task took
  wifi_notified,            \* statuses given to app_wifi_status_callback
  budget,                   \* events each source may deliver in this run
  api,                      \* per task: its call into mqtt_comm.c in progress
  aborted,                  \* the firmware stopped in an assertion or a fault
  tx,                       \* per task: its uart_comm_transmit call in progress
  uart_wire                 \* the chunk uart_write_bytes wrote last

mainVars == <<main_pc, led_queue_created>>
ledVars == <<led_task_started, received_cmd, current_led_steady_state,
             gpio_level, gpio_trace>>
wifiVars == <<s_wifi_event_group, wifi_connected_bit, s_retry_num,
              s_wifi_initialized, wifi_status_callback, wifi_drv>>
topicVars == <<mac, mac_address_str, mqtt_sub_topic_str>>
mqttVars == <<s_client, s_client_mutex, s_is_connected, s_is_initialized,
              mqtt_status_callback, s_data_callback, s_default_client_id,
              mqtt_drv>>
uartVars == <<s_uart_initialized, s_tx_mutex, s_rx_callback, uart_rx_task>>
histVars == <<calls, n_connected_notified, n_subscribe_requests, events,
              led_queue_src, led_tried, led_taken, wifi_notified, budget>>
taskVars == <<api, aborted, tx, uart_wire>>

vars == <<mainVars, led_command_queue, ledVars, wifiVars, topicVars,
          mqttVars, uartVars, histVars, taskVars>>

\* hardware addresses the station interface may have
MacAddresses ==
  { <<170, 187, 204, 221, 238, 255>>, <<0, 26, 43, 60, 77, 94>> }

\* the tasks that run mqtt_comm.c: two tasks that call its public functions
\* (task_a initialises and shuts down, task_b uses the session) and the
\* esp-mqtt client task, which runs mqtt_event_handler
SessionTasks == {"task_a", "task_b", "mqtt"}

\* no call into mqtt_comm.c in progress. A call in progress keeps the flag
\* and the handle it read under the lock; after publish, subscribe,
\* unsubscribe and is_connected return, op, ret and cause stay for the caller
NoCall ==
  [op |-> "none", pc |-> "idle", flag |-> FALSE, client |-> "NULL",
   ret |-> "none", cause |-> "none"]

\* the contexts that call uart_comm_transmit: the receive task (the response
\* of app_uart_rx_callback) and the MQTT client task (app_mqtt_data_callback)
TransmitTasks == {"uart", "mqtt"}
NoTransmit == [pc |-> "idle", ret |-> "none"]
NoChunk == [by |-> "none", part |-> 0]

\* the program after reset, before app_main runs
PowerOn ==
  /\ main_pc = "create_queue"
  /\ led_queue_created = FALSE
  /\ led_command_queue = <<>>
  /\ led_task_started = FALSE
  /\ received_cmd = "none"
  /\ current_led_steady_state = LED_CMD_OFF
  /\ gpio_level = 0
  /\ gpio_trace = <<>>
  /\ s_wifi_event_group = "NULL"
  /\ wifi_connected_bit = FALSE
  /\ s_retry_num = 0
  /\ s_wifi_initialized = FALSE
  /\ wifi_status_callback = FALSE
  /\ wifi_drv = "off"
  /\ mac \in MacAddresses
  /\ mac_address_str = <<>>
  /\ mqtt_sub_topic_str = <<>>
  /\ s_client = "NULL"
  /\ s_client_mutex = "NULL"
  /\ s_is_connected = FALSE
  /\ s_is_initialized = FALSE
  /\ mqtt_status_callback = FALSE
  /\ s_data_callback = FALSE
  /\ s_default_client_id = FALSE
  /\ mqtt_drv = "none"
  /\ s_uart_initialized = FALSE
  /\ s_tx_mutex = "NULL"
  /\ s_rx_callback = FALSE
  /\ uart_rx_task = "none"
  /\ calls = <<>>
  /\ n_connected_notified = 0
  /\ n_subscribe_requests = 0
  /\ events = [uart |-> 0, wifi |-> 0, mqtt |-> 0]
  /\ led_queue_src = <<>>
  /\ led_tried = <<>>
  /\ led_taken = <<>>
  /\ wifi_notified = <<>>
  /\ api = [t \in SessionTasks |-> NoCall]
  /\ aborted = FALSE
  /\ tx = [t \in TransmitTasks |-> NoTransmit]
  /\ uart_wire = NoChunk

Init ==
  /\ PowerOn
  /\ budget = [uart |-> MaxFrames, wifi |-> MaxWifiEvents,
               mqtt |-> MaxMqttEvents]

\* the contexts whose handlers send LED commands: the receive task, the
\* WiFi event loop and the MQTT client task
Producers == {"uart", "wifi", "mqtt"}

\* ------------------------------------------------------- app_main (main.c)

\* MainCreateQueue with app_main going on when xQueueCreate returned NULL
MainCreateQueue_ContinuesOnFailure ==
  /\ main_pc = "create_queue"
  /\ \E ok \in BOOLEAN :
       /\ led_queue_created' = ok
       /\ main_pc' = "led_init"
  /\ UNCHANGED <<led_command_queue, ledVars, wifiVars, topicVars, mqttVars,
                 uartVars, histVars, taskVars>>

\* led_command_queue = xQueueCreate(15, ...); a NULL result ends app_main
MainCreateQueue ==
  /\ main_pc = "create_queue"
  /\ \E ok \in BOOLEAN :
       /\ led_queue_created' = ok
       /\ main_pc' = IF ok THEN "led_init" ELSE "returned"
  /\ UNCHANGED <<led_command_queue, ledVars, wifiVars, topicVars, mqttVars,
                 uartVars, histVars, taskVars>>

\* MainLedInit with app_main returning when led_init_and_start_task fails
MainLedInit_HaltsOnFailure ==
  /\ main_pc = "led_init"
  /\ \E fail \in {"none", "gpio_config", "task_create"} :
       /\ led_task_started' = (fail = "none")
       /\ gpio_level' = 0
       /\ main_pc' = IF fail = "none" THEN "wifi_init" ELSE "returned"
  /\ UNCHANGED <<led_queue_created, led_command_queue, received_cmd,
                 current_led_steady_state, gpio_trace, wifiVars, topicVars,
                 mqttVars, uartVars, histVars, taskVars>>

\* led_init_and_start_task(led_command_queue): gpio_config, initial level 0,
\* xTaskCreate(led_control_task); app_main continues whatever the result.
\* The new task sets the level to 0 before it first waits on the queue.
MainLedInit ==
  /\ main_pc = "led_init"
  /\ \E fail \in {"none", "gpio_config", "task_create"} :
       /\ led_task_started' = (fail = "none")
       /\ gpio_level' = 0
  /\ main_pc' = "wifi_init"
  /\ UNCHANGED <<led_queue_created, led_command_queue, received_cmd,
                 current_led_steady_state, gpio_trace, wifiVars, topicVars,
                 mqttVars, uartVars, histVars, taskVars>>

\* MainWifiInit with app_main going on when wifi_conn_init_sta fails
MainWifiInit_ContinuesOnFailure ==
  /\ main_pc = "wifi_init"
  /\ \E fail \in {"none", "event_group", "netif", "wifi_init", "register", "start"} :
       /\ wifi_status_callback' = TRUE
       /\ s_wifi_event_group' = IF fail = "none" THEN "created" ELSE "NULL"
       /\ s_wifi_initialized' = (fail = "none")
       /\ wifi_drv' = IF fail = "none" THEN "start_pending" ELSE "off"
       /\ main_pc' = "prepare_topic"
  /\ UNCHANGED <<led_queue_created, led_command_queue, ledVars,
                 wifi_connected_bit, s_retry_num, topicVars, mqttVars,
                 uartVars, histVars, taskVars>>

\* wifi_conn_init_sta(ssid, pass, app_wifi_status_callback); every failure
\* path deletes the event group again, and app_main returns on failure
MainWifiInit ==
  /\ main_pc = "wifi_init"
  /\ \E fail \in {"none", "event_group", "netif", "wifi_init", "register", "start"} :
       /\ wifi_status_callback' = TRUE
       /\ s_wifi_event_group' = IF fail = "none" THEN "created" ELSE "NULL"
       /\ s_wifi_initialized' = (fail = "none")
       /\ wifi_drv' = IF fail = "none" THEN "start_pending" ELSE "off"
       /\ main_pc' = IF fail = "none" THEN "prepare_topic" ELSE "returned"
  /\ UNCHANGED <<led_queue_created, led_command_queue, ledVars,
                 wifi_connected_bit, s_retry_num, topicVars, mqttVars,
                 uartVars, histVars, taskVars>>

\* get_mac_address_str(): "%02X%02X%02X%02X%02X%02X" into mac_address_str[18]
get_mac_address_str(m) ==
  Take(Hex02X(m[1]) \o Hex02X(m[2]) \o Hex02X(m[3]) \o
       Hex02X(m[4]) \o Hex02X(m[5]) \o Hex02X(m[6]), MacStrSize - 1)

\* get_mac_address_str(); snprintf(mqtt_sub_topic_str, 64, "%s%s", base, mac)
MainPrepareTopic ==
  /\ main_pc = "prepare_topic"
  /\ mac_address_str' = get_mac_address_str(mac)
  /\ mqtt_sub_topic_str' =
       snprintf_ss(SubTopicSize, APP_MQTT_SUB_BASE_TOPIC, mac_address_str')
  /\ main_pc' = "mqtt_init"
  /\ UNCHANGED <<led_queue_created, led_command_queue, ledVars, wifiVars, mac,
                 mqttVars, uartVars, histVars, taskVars>>

\* mqtt_comm_init up to and including esp_mqtt_client_start.  The callbacks
\* are stored first; each failure path undoes the mutex, the generated
\* client id and the client, and returns an error to app_main, which goes on.
MainMqttInitStart ==
  /\ main_pc = "mqtt_init"
  /\ ~s_is_initialized
  /\ \E fail \in {"none", "mutex", "client_id", "client_init", "register", "start"} :
       /\ mqtt_status_callback' = TRUE
       /\ s_data_callback' = TRUE
       /\ s_client_mutex' = IF fail = "none" THEN "free" ELSE "NULL"
       /\ s_default_client_id' = (fail = "none")
       /\ s_client' = IF fail = "none" THEN "client" ELSE "NULL"
       /\ mqtt_drv' = IF fail = "none" THEN "disconnected" ELSE "none"
       /\ main_pc' = IF fail = "none" THEN "mqtt_init_mark" ELSE "uart_init"
  /\ UNCHANGED <<led_queue_created, led_command_queue, ledVars, wifiVars,
                 topicVars, s_is_connected, s_is_initialized, uartVars,
                 histVars, taskVars>>

\* mqtt_comm_init: s_is_initialized = true; return ESP_OK
MainMqttInitMark ==
  /\ main_pc = "mqtt_init_mark"
  /\ s_is_initialized' = TRUE
  /\ main_pc' = "uart_init"
  /\ UNCHANGED <<led_queue_created, led_command_queue, ledVars, wifiVars,
                 topicVars, s_client, s_client_mutex, s_is_connected,
                 mqtt_status_callback, s_data_callback, s_default_client_id,
                 mqtt_drv, uartVars, histVars, taskVars>>

\* uart_comm_init up to and including xTaskCreate(uart_rx_task); the
\* callback is stored before the driver calls that can fail
MainUartInitStart ==
  /\ main_pc = "uart_init"
  /\ ~s_uart_initialized
  /\ \E fail \in {"none", "param_config", "set_pin", "driver_install", "mutex", "task_create"} :
       /\ s_rx_callback' = TRUE
       /\ s_tx_mutex' = IF fail = "none" THEN "free" ELSE "NULL"
       /\ uart_rx_task' = IF fail = "none" THEN "created" ELSE "none"
       /\ main_pc' = IF fail = "none" THEN "uart_init_mark" ELSE "idle"
  /\ UNCHANGED <<led_queue_created, led_command_queue, ledVars, wifiVars,
                 topicVars, mqttVars, s_uart_initialized, histVars, taskVars>>

\* uart_comm_init: s_uart_initialized = true; return ESP_OK
MainUartInitMark ==
  /\ main_pc = "uart_init_mark"
  /\ s_uart_initialized' = TRUE
  /\ main_pc' = "idle"
  /\ UNCHANGED <<led_queue_created, led_command_queue, ledVars, wifiVars,
                 topicVars, mqttVars, s_tx_mutex, s_rx_callback, uart_rx_task,
                 histVars, taskVars>>

\* ------------------------------------------- handler-local world and inputs
\* A handler runs to completion on a world w: q is the LED queue, log the
\* calls made so far, conn the session's s_is_connected, ret the result of
\* the call made last, tried the queue sends attempted with their outcome.
World(q, conn) ==
  [q |-> q, log |-> <<>>, conn |-> conn, ret |-> ESP_OK, tried |-> <<>>]

LogCall(w, entry) == [w EXCEPT !.log = Append(@, entry)]

\* outcomes of the platform calls a handler makes:
\*   malloc_ok     malloc(len + 1) returned a buffer
\*   session_take  xSemaphoreTake(s_client_mutex, 100 ms) returned pdTRUE
\*   client_ok     the esp-mqtt call returned a msg_id other than -1
\*   write_ok      uart_write_bytes wrote all len bytes
Env(m, t, c, wr) ==
  [malloc_ok |-> m, session_take |-> t, client_ok |-> c, write_ok |-> wr]

\* Only the outcomes of calls that are made are enumerated: nothing follows
\* a failed malloc, and the esp-mqtt client is not called without the lock.
FrameEnvs ==
  { Env(FALSE, TRUE, TRUE, TRUE) }
  \cup { Env(TRUE, FALSE, TRUE, wr) : wr \in BOOLEAN }
  \cup { Env(TRUE, TRUE, c, wr) : c \in BOOLEAN, wr \in BOOLEAN }
SubscribeEnvs ==
  { Env(TRUE, FALSE, TRUE, TRUE) } \cup { Env(TRUE, TRUE, c, TRUE) : c \in BOOLEAN }
DeliveryEnvs == { Env(TRUE, TRUE, TRUE, wr) : wr \in BOOLEAN }
NoEnv == Env(TRUE, TRUE, TRUE, TRUE)

\* xQueueSend placing the command at the head of the queue
xQueueSend_ToFront(w, cmd) ==
  LET w1 == LogCall(w, [op |-> "xQueueSend", cmd |-> cmd])
      ok == Len(w1.q) < QueueLength
      w2 == [w1 EXCEPT !.tried = Append(@, [cmd |-> cmd, ok |-> ok])]
  IN  IF ok THEN [w2 EXCEPT !.q = <<cmd>> \o @] ELSE w2

\* xQueueSend making room by discarding the oldest command of a full queue
xQueueSend_DiscardOldest(w, cmd) ==
  LET w1 == LogCall(w, [op |-> "xQueueSend", cmd |-> cmd])
      ok == Len(w1.q) < QueueLength
      w2 == [w1 EXCEPT !.tried = Append(@, [cmd |-> cmd, ok |-> ok])]
  IN  IF ok THEN [w2 EXCEPT !.q = Append(@, cmd)]
      ELSE [w2 EXCEPT !.q = Append(Tail(@), cmd)]

\* xQueueSend(led_command_queue, &cmd, pdMS_TO_TICKS(10)): the command is
\* appended unless the queue still holds QueueLength items at the timeout
xQueueSend(w, cmd) ==
  LET w1 == LogCall(w, [op |-> "xQueueSend", cmd |-> cmd])
      ok == Len(w1.q) < QueueLength
      w2 == [w1 EXCEPT !.tried = Append(@, [cmd |-> cmd, ok |-> ok])]
  IN  IF ok THEN [w2 EXCEPT !.q = Append(@, cmd)] ELSE w2

\* ------------------------------------------------------- wifi_conn queries
wifi_conn_is_connected ==
  IF s_wifi_event_group = "NULL" THEN FALSE ELSE wifi_connected_bit

\* --------------------------------------------------- uart_comm_transmit
uart_comm_transmit(w, data, len, env) ==
  LET ret == IF ~s_uart_initialized THEN ESP_FAIL
             ELSE IF len = 0 THEN ESP_ERR_INVALID_ARG
             ELSE IF env.write_ok THEN ESP_OK ELSE ESP_FAIL
      w1 == LogCall(w, [op |-> "uart_comm_transmit", data |-> data,
                        len |-> len, ret |-> ret])
      w2 == IF s_uart_initialized /\ len /= 0
              THEN LogCall(w1, [op |-> "uart_write_bytes",
                                data |-> Take(data, len)])
              ELSE w1
  IN  [w2 EXCEPT !.ret = ret]

\* ------------------------------------------ mqtt_comm publish / subscribe
mqtt_comm_publish(w, topic, data, len, qos, retain, env) ==
  LET reaches == s_is_initialized /\ env.session_take
                 /\ w.conn /\ s_client /= "NULL"
      ret == IF ~s_is_initialized THEN ESP_ERR_INVALID_ARG
             ELSE IF reaches /\ env.client_ok THEN ESP_OK
             ELSE ESP_FAIL
      w1 == LogCall(w, [op |-> "mqtt_comm_publish", topic |-> topic,
                        data |-> data, len |-> len, qos |-> qos,
                        retain |-> retain, ret |-> ret])
      w2 == IF reaches
              THEN LogCall(w1, [op |-> "esp_mqtt_client_publish",
                                topic |-> topic, data |-> data, len |-> len,
                                qos |-> qos, retain |-> retain])
              ELSE w1
  IN  [w2 EXCEPT !.ret = ret]

mqtt_comm_subscribe(w, topic, qos, env) ==
  LET reaches == s_is_initialized /\ env.session_take
                 /\ w.conn /\ s_client /= "NULL"
      ret == IF ~s_is_initialized THEN ESP_ERR_INVALID_ARG
             ELSE IF reaches /\ env.client_ok THEN ESP_OK
             ELSE ESP_FAIL
      w1 == LogCall(w, [op |-> "mqtt_comm_subscribe", topic |-> topic,
                        qos |-> qos, ret |-> ret])
      w2 == IF reaches
              THEN LogCall(w1, [op |-> "esp_mqtt_client_subscribe",
                                topic |-> topic, qos |-> qos])
              ELSE w1
  IN  [w2 EXCEPT !.ret = ret]

\* ------------------------------------------------ received serial frames
\* A frame is described by what cJSON_Parse makes of it: json is FALSE when
\* it is not valid JSON; otherwise root is the parsed value and topic and
\* payload the items cJSON_GetObjectItem finds in it.
cJSON_Absent == [type |-> "NULL", valuestring |-> <<>>]
cJSON_Number == [type |-> "cJSON_Number", valuestring |-> <<>>]
cJSON_String(s) == [type |-> "cJSON_String", valuestring |-> s]

cJSON_IsString(item) == item.type = "cJSON_String"

cJSON_Parse(frame) ==
  IF frame.json THEN [type |-> frame.root, topic |-> frame.topic,
                      payload |-> frame.payload]
  ELSE cJSON_Absent

cJSON_GetObjectItem(root, name) ==
  IF root.type /= "cJSON_Object" THEN cJSON_Absent
  ELSE IF name = "topic" THEN root.topic ELSE root.payload

TopicTemp == <<"t","e","m","p">>
\* the longest suffix that fits full_topic[128] behind the prefix, and the
\* shortest that does not
TopicFits == Rep("a", FullTopicSize - 1 - Len(APP_MQTT_PUB_BASE_TOPIC) - 1) \o <<"y">>
TopicTooLong == Rep("a", FullTopicSize - 1 - Len(APP_MQTT_PUB_BASE_TOPIC)) \o <<"z">>
Payload235 == <<"2","3",".","5">>

TopicItems ==
  { cJSON_Absent, cJSON_Number, cJSON_String(<<>>), cJSON_String(TopicTemp),
    cJSON_String(TopicFits), cJSON_String(TopicTooLong) }
PayloadItems == { cJSON_Absent, cJSON_Number, cJSON_String(Payload235) }

Frames ==
  { [json |-> FALSE, root |-> "NULL", topic |-> cJSON_Absent,
     payload |-> cJSON_Absent],
    [json |-> TRUE, root |-> "cJSON_Array", topic |-> cJSON_Absent,
     payload |-> cJSON_Absent] }
  \cup
  { [json |-> TRUE, root |-> "cJSON_Object", topic |-> t, payload |-> p] :
      t \in TopicItems, p \in PayloadItems }

\* ------------------------------------------------ Coordinator callbacks
\* the callback entered without the LED command
app_uart_rx_callback_entry_NoSend(w, frame, env) ==
  LogCall(w, [op |-> "app_uart_rx_callback", frame |-> frame,
              malloc_ok |-> env.malloc_ok])

\* the first statements of the callback: the LED command is sent
app_uart_rx_callback_entry(w, frame, env) ==
  xQueueSend(LogCall(w, [op |-> "app_uart_rx_callback", frame |-> frame,
                         malloc_ok |-> env.malloc_ok]),
             LED_CMD_UART_RX_RECEIVED)

app_uart_rx_callback(w, frame, env) ==
  LET w1 == app_uart_rx_callback_entry(w, frame, env)
      root == cJSON_Parse(frame)
      topic_item == cJSON_GetObjectItem(root, "topic")
      payload_item == cJSON_GetObjectItem(root, "payload")
      full_topic == snprintf_ss(FullTopicSize, APP_MQTT_PUB_BASE_TOPIC,
                                topic_item.valuestring)
      wp == mqtt_comm_publish(w1, full_topic, payload_item.valuestring, -1,
                              PublishQos, PublishRetain, env)
  IN  IF ~env.malloc_ok THEN w1
      ELSE IF root.type = "NULL"
        THEN uart_comm_transmit(w1, MsgInvalidJson, Len(MsgInvalidJson), env)
      ELSE IF ~cJSON_IsString(topic_item) \/ ~cJSON_IsString(payload_item)
        THEN uart_comm_transmit(w1, MsgMissingFields, Len(MsgMissingFields), env)
      ELSE IF wp.ret = ESP_OK
        THEN uart_comm_transmit(wp, MsgOkQueued, Len(MsgOkQueued), env)
      ELSE uart_comm_transmit(wp, MsgPublishFailed, Len(MsgPublishFailed), env)

\* WifiLedCommand with the DISCONNECTED case reporting an error instead
WifiLedCommand_DisconnectedAsError(status) ==
  CASE status = WIFI_CONN_STATUS_DISCONNECTED -> LED_CMD_ERROR
    [] status = WIFI_CONN_STATUS_CONNECTING -> LED_CMD_WIFI_CONNECTING
    [] status = WIFI_CONN_STATUS_CONNECTED_GOT_IP -> LED_CMD_WIFI_CONNECTED
    [] status = WIFI_CONN_STATUS_CONNECTION_FAILED -> LED_CMD_ERROR

WifiLedCommand(status) ==
  CASE status = WIFI_CONN_STATUS_DISCONNECTED -> LED_CMD_WIFI_CONNECTING
    [] status = WIFI_CONN_STATUS_CONNECTING -> LED_CMD_WIFI_CONNECTING
    [] status = WIFI_CONN_STATUS_CONNECTED_GOT_IP -> LED_CMD_WIFI_CONNECTED
    [] status = WIFI_CONN_STATUS_CONNECTION_FAILED -> LED_CMD_ERROR

app_wifi_status_callback(w, status) ==
  xQueueSend(LogCall(w, [op |-> "app_wifi_status_callback",
                         status |-> status]),
             WifiLedCommand(status))

\* MqttLostLedCommand with the two branches exchanged
MqttLostLedCommand_Swapped(wifi_up) ==
  IF wifi_up THEN LED_CMD_WIFI_CONNECTING ELSE LED_CMD_WIFI_CONNECTED

MqttLostLedCommand(wifi_up) ==
  IF wifi_up THEN LED_CMD_WIFI_CONNECTED ELSE LED_CMD_WIFI_CONNECTING

\* app_mqtt_status_callback that asks again when the subscribe call failed
app_mqtt_status_callback_Resubscribe(w, status, env) ==
  LET w1 == LogCall(w, [op |-> "app_mqtt_status_callback", status |-> status])
      w2 == xQueueSend(w1, LED_CMD_MQTT_CONNECTED)
      w3 == mqtt_comm_subscribe(w2, mqtt_sub_topic_str, SubscribeQos, env)
  IN  CASE status = MQTT_CONN_STATUS_DISCONNECTED ->
             xQueueSend(w1, IF wifi_conn_is_connected
                              THEN LED_CMD_WIFI_CONNECTED
                              ELSE LED_CMD_WIFI_CONNECTING)
        [] status = MQTT_CONN_STATUS_CONNECTING -> w1
        [] status = MQTT_CONN_STATUS_CONNECTED ->
             IF strlen(mqtt_sub_topic_str) > 0
               THEN IF w3.ret = ESP_OK THEN w3
                    ELSE mqtt_comm_subscribe(w3, mqtt_sub_topic_str,
                                             SubscribeQos, env)
               ELSE w2
        [] status = MQTT_CONN_STATUS_ERROR ->
             xQueueSend(w1, IF wifi_conn_is_connected
                              THEN LED_CMD_WIFI_CONNECTED
                              ELSE LED_CMD_WIFI_CONNECTING)

\* app_mqtt_status_callback showing the connection attempt on the LED
app_mqtt_status_callback_ConnectingLed(w, status, env) ==
  LET w1 == LogCall(w, [op |-> "app_mqtt_status_callback", status |-> status])
      w2 == xQueueSend(w1, LED_CMD_MQTT_CONNECTED)
  IN  CASE status = MQTT_CONN_STATUS_DISCONNECTED ->
             xQueueSend(w1, MqttLostLedCommand(wifi_conn_is_connected))
        [] status = MQTT_CONN_STATUS_CONNECTING ->
             xQueueSend(w1, LED_CMD_WIFI_CONNECTED)
        [] status = MQTT_CONN_STATUS_CONNECTED ->
             IF strlen(mqtt_sub_topic_str) > 0
               THEN mqtt_comm_subscribe(w2, mqtt_sub_topic_str, SubscribeQos, env)
               ELSE w2
        [] status = MQTT_CONN_STATUS_ERROR ->
             xQueueSend(w1, MqttLostLedCommand(wifi_conn_is_connected))

app_mqtt_status_callback(w, status, env) ==
  LET w1 == LogCall(w, [op |-> "app_mqtt_status_callback", status |-> status])
      w2 == xQueueSend(w1, LED_CMD_MQTT_CONNECTED)
  IN  CASE status = MQTT_CONN_STATUS_DISCONNECTED ->
             xQueueSend(w1, MqttLostLedCommand(wifi_conn_is_connected))
        [] status = MQTT_CONN_STATUS_CONNECTING -> w1
        [] status = MQTT_CONN_STATUS_CONNECTED ->
             IF strlen(mqtt_sub_topic_str) > 0
               THEN mqtt_comm_subscribe(w2, mqtt_sub_topic_str, SubscribeQos, env)
               ELSE w2
        [] status = MQTT_CONN_STATUS_ERROR ->
             xQueueSend(w1, MqttLostLedCommand(wifi_conn_is_connected))

\* TopicMatches without the length test: any prefix of the topic matches
TopicMatches_NoLengthTest(topic, topic_len) ==
  strncmp(topic, mqtt_sub_topic_str, topic_len) = 0

TopicMatches(topic, topic_len) ==
  /\ topic_len = strlen(mqtt_sub_topic_str)
  /\ strncmp(topic, mqtt_sub_topic_str, topic_len) = 0

\* the callback sending the LED command only for its own topic
app_mqtt_data_callback_entry_OwnTopicOnly(w, topic, topic_len, data, data_len) ==
  LET w1 == LogCall(w, [op |-> "app_mqtt_data_callback",
                        topic |-> Take(topic, topic_len),
                        data |-> Take(data, data_len)])
  IN  IF Take(topic, topic_len) = mqtt_sub_topic_str
        THEN xQueueSend(w1, LED_CMD_MQTT_RX_RECEIVED)
        ELSE w1

\* the first statements of the callback: the LED command is sent
app_mqtt_data_callback_entry(w, topic, topic_len, data, data_len) ==
  xQueueSend(LogCall(w, [op |-> "app_mqtt_data_callback",
                         topic |-> Take(topic, topic_len),
                         data |-> Take(data, data_len)]),
             LED_CMD_MQTT_RX_RECEIVED)

app_mqtt_data_callback(w, topic, topic_len, data, data_len, env) ==
  LET w1 == app_mqtt_data_callback_entry(w, topic, topic_len, data, data_len)
      tx_buffer == snprintf_mqtt_data(data_len + 32, data_len, data)
      len == Len(tx_buffer)
  IN  IF TopicMatches(topic, topic_len)
        THEN IF len > 0 THEN uart_comm_transmit(w1, tx_buffer, len, env)
             ELSE w1
        ELSE w1

\* ------------------------------------------------------ running a handler
CountOp(log, op) == Cardinality({i \in 1..Len(log) : log[i].op = op})

\* the handler that ran ended in world w: its queue sends, its calls and
\* the run's counters become the new state
Commit(w, source) ==
  /\ led_command_queue' = w.q
  /\ calls' = w.log
  /\ n_connected_notified' = n_connected_notified +
       Cardinality({i \in 1..Len(w.log) :
                      /\ w.log[i].op = "app_mqtt_status_callback"
                      /\ w.log[i].status = MQTT_CONN_STATUS_CONNECTED})
  /\ n_subscribe_requests' = n_subscribe_requests +
       CountOp(w.log, "mqtt_comm_subscribe")
  /\ events' = [events EXCEPT ![source] = @ + 1]
  /\ led_queue_src' =
       led_queue_src \o Rep(source, Len(w.q) - Len(led_command_queue))
  /\ led_tried' =
       led_tried \o [i \in 1..Len(w.tried) |->
                       [src |-> source, cmd |-> w.tried[i].cmd,
                        ok |-> w.tried[i].ok]]
  /\ led_taken' = led_taken
  /\ budget' = budget
  /\ wifi_notified' =
       LET told == SelectSeq(w.log,
                             LAMBDA e : e.op = "app_wifi_status_callback")
       IN  wifi_notified \o [i \in 1..Len(told) |-> told[i].status]

\* ---------------------------------------------- uart_rx_task (uart_comm.c)
\* the task allocates its receive buffer; without it the task marks the
\* component non-functional and deletes itself
UartRxTaskStart ==
  /\ uart_rx_task = "created"
  /\ \E ok \in BOOLEAN :
       /\ uart_rx_task' = IF ok THEN "running" ELSE "deleted"
       /\ s_uart_initialized' = IF ok THEN s_uart_initialized ELSE FALSE
  /\ UNCHANGED <<mainVars, led_command_queue, ledVars, wifiVars, topicVars,
                 mqttVars, s_tx_mutex, s_rx_callback, histVars, taskVars>>

\* one pass of the receive loop with len > 0: s_rx_callback(rx_buffer, len)
UartRxFrame ==
  /\ uart_rx_task = "running"
  /\ s_rx_callback
  /\ events.uart < budget.uart
  /\ \E frame \in Frames, env \in FrameEnvs :
       Commit(app_uart_rx_callback(World(led_command_queue, s_is_connected),
                                   frame, env), "uart")
  /\ UNCHANGED <<mainVars, ledVars, wifiVars, topicVars, mqttVars, uartVars, taskVars>>

\* ------------------------------------------- wifi_conn.c event handlers
\* esp_wifi_connect() either starts an attempt or is rejected at once
WifiAfterConnect(w, connect_ok) ==
  LET w1 == LogCall(w, [op |-> "esp_wifi_connect", ok |-> connect_ok])
  IN  IF connect_ok THEN w1
      ELSE app_wifi_status_callback(w1, WIFI_CONN_STATUS_CONNECTION_FAILED)

\* the handler was entered for event_id while s_retry_num was retry_num
WifiHandlerEntered(w, handler, event_id, retry_num) ==
  LogCall(w, [op |-> handler, event_id |-> event_id, retry_num |-> retry_num])

\* WIFI_EVENT_STA_START: notify CONNECTING, then esp_wifi_connect()
wifi_event_handler_start(w, connect_ok) ==
  WifiAfterConnect(
    app_wifi_status_callback(
      WifiHandlerEntered(w, "wifi_event_handler", "WIFI_EVENT_STA_START",
                         s_retry_num),
      WIFI_CONN_STATUS_CONNECTING),
    connect_ok)

\* wifi_event_handler_disconnected giving up after WIFI_CONN_MAX_RETRY
\* disconnections in a row
wifi_event_handler_disconnected_RetryLimit(w, connect_ok) ==
  LET w1 == LogCall(WifiHandlerEntered(w, "wifi_event_handler",
                                       "WIFI_EVENT_STA_DISCONNECTED",
                                       s_retry_num),
                    [op |-> "xEventGroupClearBits"])
      w2 == app_wifi_status_callback(w1, WIFI_CONN_STATUS_DISCONNECTED)
  IN  IF s_retry_num < WIFI_CONN_MAX_RETRY
        THEN WifiAfterConnect(
               app_wifi_status_callback(w2, WIFI_CONN_STATUS_CONNECTING),
               connect_ok)
        ELSE app_wifi_status_callback(w2, WIFI_CONN_STATUS_CONNECTION_FAILED)

\* WIFI_EVENT_STA_DISCONNECTED: clear WIFI_CONNECTED_BIT, notify DISCONNECTED,
\* notify CONNECTING, wait WIFI_CONN_RETRY_DELAY_MS, then esp_wifi_connect()
wifi_event_handler_disconnected(w, connect_ok) ==
  LET w1 == LogCall(WifiHandlerEntered(w, "wifi_event_handler",
                                       "WIFI_EVENT_STA_DISCONNECTED",
                                       s_retry_num),
                    [op |-> "xEventGroupClearBits"])
      w2 == app_wifi_status_callback(w1, WIFI_CONN_STATUS_DISCONNECTED)
      w3 == app_wifi_status_callback(w2, WIFI_CONN_STATUS_CONNECTING)
  IN  WifiAfterConnect(w3, connect_ok)

\* ip_event_handler notifying the application before it sets the bit
ip_event_handler_NotifyFirst(w) ==
  LogCall(app_wifi_status_callback(
            WifiHandlerEntered(w, "ip_event_handler", "IP_EVENT_STA_GOT_IP",
                               s_retry_num),
            WIFI_CONN_STATUS_CONNECTED_GOT_IP),
          [op |-> "xEventGroupSetBits"])

\* IP_EVENT_STA_GOT_IP: set WIFI_CONNECTED_BIT, notify CONNECTED_GOT_IP
ip_event_handler(w) ==
  app_wifi_status_callback(
    LogCall(WifiHandlerEntered(w, "ip_event_handler", "IP_EVENT_STA_GOT_IP",
                               s_retry_num),
            [op |-> "xEventGroupSetBits"]),
    WIFI_CONN_STATUS_CONNECTED_GOT_IP)

\* wifi_event_handler, WIFI_EVENT_STA_START
WifiEventStaStart ==
  /\ wifi_drv = "start_pending"
  /\ wifi_status_callback
  /\ events.wifi < budget.wifi
  /\ \E connect_ok \in BOOLEAN :
       /\ Commit(wifi_event_handler_start(
                   World(led_command_queue, s_is_connected), connect_ok),
                 "wifi")
       /\ wifi_drv' = IF connect_ok THEN "connecting" ELSE "idle"
  /\ UNCHANGED <<mainVars, ledVars, s_wifi_event_group, wifi_connected_bit,
                 s_retry_num, s_wifi_initialized, wifi_status_callback,
                 topicVars, mqttVars, uartVars, taskVars>>

\* wifi_event_handler, WIFI_EVENT_STA_DISCONNECTED
WifiEventStaDisconnected ==
  /\ wifi_drv \in {"connecting", "got_ip"}
  /\ wifi_status_callback
  /\ events.wifi < budget.wifi
  /\ s_retry_num' = s_retry_num + 1
  /\ wifi_connected_bit' = FALSE
  /\ \E connect_ok \in BOOLEAN :
       /\ Commit(wifi_event_handler_disconnected(
                   World(led_command_queue, s_is_connected), connect_ok),
                 "wifi")
       /\ wifi_drv' = IF connect_ok THEN "connecting" ELSE "idle"
  /\ UNCHANGED <<mainVars, ledVars, s_wifi_event_group, s_wifi_initialized,
                 wifi_status_callback, topicVars, mqttVars, uartVars, taskVars>>

\* ip_event_handler, IP_EVENT_STA_GOT_IP
IpEventStaGotIp ==
  /\ wifi_drv = "connecting"
  /\ wifi_status_callback
  /\ events.wifi < budget.wifi
  /\ s_retry_num' = 0
  /\ wifi_connected_bit' = TRUE
  /\ wifi_drv' = "got_ip"
  /\ Commit(ip_event_handler(World(led_command_queue, s_is_connected)),
            "wifi")
  /\ UNCHANGED <<mainVars, ledVars, s_wifi_event_group, s_wifi_initialized,
                 wifi_status_callback, topicVars, mqttVars, uartVars, taskVars>>

\* ------------------------------------------ mqtt_comm.c mqtt_event_handler
\* mqtt_event_handler_status with MQTT_EVENT_ERROR leaving the flag alone
mqtt_event_handler_status_ErrorKeepsFlag(flag, status, env) ==
  LET kept == IF status = MQTT_CONN_STATUS_ERROR THEN s_is_connected ELSE flag
      w0 == World(led_command_queue, kept)
  IN  /\ s_is_connected' = kept
      /\ Commit(IF mqtt_status_callback
                  THEN app_mqtt_status_callback(w0, status, env)
                  ELSE w0,
                "mqtt")

\* MQTT_EVENT_CONNECTED / DISCONNECTED / ERROR: the flag is written under
\* s_client_mutex, then the status callback runs
mqtt_event_handler_status(flag, status, env) ==
  LET w0 == World(led_command_queue, flag)
  IN  /\ s_is_connected' = flag
      /\ Commit(IF mqtt_status_callback
                  THEN app_mqtt_status_callback(w0, status, env)
                  ELSE w0,
                "mqtt")

\* the broker accepted the connection; this needs the network to be up
MqttEventConnected ==
  /\ mqtt_drv = "disconnected"
  /\ wifi_drv = "got_ip"
  /\ events.mqtt < budget.mqtt
  /\ mqtt_drv' = "connected"
  /\ \E env \in SubscribeEnvs :
       mqtt_event_handler_status(TRUE, MQTT_CONN_STATUS_CONNECTED, env)
  /\ UNCHANGED <<mainVars, ledVars, wifiVars, topicVars, s_client,
                 s_client_mutex, s_is_initialized, mqtt_status_callback,
                 s_data_callback, s_default_client_id, uartVars, taskVars>>

\* the connection was lost, or an attempt to connect ended
MqttEventDisconnected ==
  /\ mqtt_drv \in {"disconnected", "connected"}
  /\ events.mqtt < budget.mqtt
  /\ mqtt_drv' = "disconnected"
  /\ mqtt_event_handler_status(FALSE, MQTT_CONN_STATUS_DISCONNECTED, NoEnv)
  /\ UNCHANGED <<mainVars, ledVars, wifiVars, topicVars, s_client,
                 s_client_mutex, s_is_initialized, mqtt_status_callback,
                 s_data_callback, s_default_client_id, uartVars, taskVars>>

\* a transport or protocol error was reported
MqttEventError ==
  /\ mqtt_drv \in {"disconnected", "connected"}
  /\ events.mqtt < budget.mqtt
  /\ mqtt_event_handler_status(FALSE, MQTT_CONN_STATUS_ERROR, NoEnv)
  /\ UNCHANGED <<mainVars, ledVars, wifiVars, topicVars, s_client,
                 s_client_mutex, s_is_initialized, mqtt_status_callback,
                 s_data_callback, s_default_client_id, mqtt_drv, uartVars, taskVars>>

\* topics and payloads the broker may deliver
PayloadHello == <<"h","e","l","l","o">>
PayloadWithNul == <<"h","i",NUL,"x">>
DeliveredPayloads == { PayloadHello, <<>>, PayloadWithNul }

DeliveredTopics(sub) ==
  { sub,
    Take(sub, Len(sub) - 1),
    sub \o <<"0">>,
    Take(sub, Len(sub) - 1) \o <<NUL>>,
    <<"x">> \o SubSeq(sub, 2, Len(sub)) }

\* MQTT_EVENT_DATA: s_data_callback(topic, topic_len, data, data_len)
MqttEventData ==
  /\ mqtt_drv = "connected"
  /\ events.mqtt < budget.mqtt
  /\ \E topic \in DeliveredTopics(mqtt_sub_topic_str),
        data \in DeliveredPayloads, env \in DeliveryEnvs :
       LET w0 == World(led_command_queue, s_is_connected)
       IN  Commit(IF s_data_callback
                    THEN app_mqtt_data_callback(w0, topic, Len(topic), data,
                                                Len(data), env)
                    ELSE w0, "mqtt")
  /\ UNCHANGED <<mainVars, ledVars, wifiVars, topicVars, mqttVars, uartVars, taskVars>>

\* ------------------------------------- led_control_task (led_handler.c)
ActivityCommands == { LED_CMD_UART_RX_RECEIVED, LED_CMD_MQTT_RX_RECEIVED }

\* led_steady_after with the activity cases storing the command as well
led_steady_after_StoresActivity(cmd, steady) ==
  CASE cmd = LED_CMD_OFF -> LED_CMD_OFF
    [] cmd \in led_command_t -> cmd
    [] OTHER -> LED_CMD_OFF

\* led_steady_after with the error case falling into the default case
led_steady_after_ErrorAsOff(cmd, steady) ==
  CASE cmd = LED_CMD_WIFI_CONNECTING -> cmd
    [] cmd = LED_CMD_WIFI_CONNECTED -> cmd
    [] cmd = LED_CMD_MQTT_CONNECTED -> cmd
    [] cmd = LED_CMD_UART_RX_RECEIVED -> steady
    [] cmd = LED_CMD_MQTT_RX_RECEIVED -> steady
    [] OTHER -> LED_CMD_OFF

\* the value of current_led_steady_state after the switch
led_steady_after(cmd, steady) ==
  CASE cmd = LED_CMD_WIFI_CONNECTING -> cmd
    [] cmd = LED_CMD_WIFI_CONNECTED -> cmd
    [] cmd = LED_CMD_MQTT_CONNECTED -> cmd
    [] cmd = LED_CMD_UART_RX_RECEIVED -> steady
    [] cmd = LED_CMD_MQTT_RX_RECEIVED -> steady
    [] cmd = LED_CMD_ERROR -> cmd
    [] OTHER -> LED_CMD_OFF

\* led_gpio_writes with LED_CMD_MQTT_CONNECTED shown as a pulse
led_gpio_writes_ConnectedPulse(cmd, steady) ==
  LET was_steady_on == (steady = LED_CMD_MQTT_CONNECTED)
      before == IF cmd \notin ActivityCommands THEN <<0>> ELSE <<>>
      dim == IF was_steady_on THEN <<0>> ELSE <<>>
      restore == IF was_steady_on THEN <<1>> ELSE <<>>
  IN  before \o
      CASE cmd = LED_CMD_WIFI_CONNECTING -> <<1, 0>>
        [] cmd = LED_CMD_WIFI_CONNECTED -> <<1, 0>>
        [] cmd = LED_CMD_MQTT_CONNECTED -> <<1, 0>>
        [] cmd = LED_CMD_UART_RX_RECEIVED -> dim \o <<1, 0, 1, 0>> \o restore
        [] cmd = LED_CMD_MQTT_RX_RECEIVED -> dim \o <<1, 0>> \o restore
        [] cmd = LED_CMD_ERROR -> <<1, 0>>
        [] OTHER -> <<0>>

\* led_gpio_writes without the final restore of the solid-on level
led_gpio_writes_NoRestore(cmd, steady) ==
  LET was_steady_on == (steady = LED_CMD_MQTT_CONNECTED)
      before == IF cmd \notin ActivityCommands THEN <<0>> ELSE <<>>
      dim == IF was_steady_on THEN <<0>> ELSE <<>>
  IN  before \o
      CASE cmd = LED_CMD_WIFI_CONNECTING -> <<1, 0>>
        [] cmd = LED_CMD_WIFI_CONNECTED -> <<1, 0>>
        [] cmd = LED_CMD_MQTT_CONNECTED -> <<1>>
        [] cmd = LED_CMD_UART_RX_RECEIVED -> dim \o <<1, 0, 1, 0>>
        [] cmd = LED_CMD_MQTT_RX_RECEIVED -> dim \o <<1, 0>>
        [] cmd = LED_CMD_ERROR -> <<1, 0>>
        [] OTHER -> <<0>>

\* the gpio_set_level calls made for one command, in order
led_gpio_writes(cmd, steady) ==
  LET was_steady_on == (steady = LED_CMD_MQTT_CONNECTED)
      before == IF cmd \notin ActivityCommands THEN <<0>> ELSE <<>>
      dim == IF was_steady_on THEN <<0>> ELSE <<>>
      restore == IF was_steady_on THEN <<1>> ELSE <<>>
  IN  before \o
      CASE cmd = LED_CMD_WIFI_CONNECTING -> <<1, 0>>
        [] cmd = LED_CMD_WIFI_CONNECTED -> <<1, 0>>
        [] cmd = LED_CMD_MQTT_CONNECTED -> <<1>>
        [] cmd = LED_CMD_UART_RX_RECEIVED -> dim \o <<1, 0, 1, 0>> \o restore
        [] cmd = LED_CMD_MQTT_RX_RECEIVED -> dim \o <<1, 0>> \o restore
        [] cmd = LED_CMD_ERROR -> <<1, 0>>
        [] OTHER -> <<0>>

\* LedTaskReady for a task that is woken only by a second queued command
LedTaskReady_NeedsTwo ==
  /\ led_task_started
  /\ Len(led_command_queue) >= 2

\* xQueueReceive(cmd_queue, &received_cmd, portMAX_DELAY) returns as soon as
\* the task exists and the queue holds a command
LedTaskReady ==
  /\ led_task_started
  /\ led_command_queue /= <<>>

\* one pass of the task loop: xQueueReceive, then the whole pattern
LedProcessCommand ==
  /\ LedTaskReady
  /\ led_queue_src' = Tail(led_queue_src)
  /\ led_taken' =
       IF Head(led_queue_src) \in Producers
         THEN Append(led_taken, [src |-> Head(led_queue_src),
                                 cmd |-> Head(led_command_queue)])
         ELSE led_taken
  /\ LET cmd == Head(led_command_queue)
         writes == led_gpio_writes(cmd, current_led_steady_state)
     IN  /\ received_cmd' = cmd
         /\ current_led_steady_state' =
              led_steady_after(cmd, current_led_steady_state)
         /\ gpio_trace' = writes
         /\ gpio_level' = writes[Len(writes)]
  /\ led_command_queue' = Tail(led_command_queue)
  /\ UNCHANGED <<mainVars, led_task_started, wifiVars, topicVars, mqttVars,
                 uartVars, calls, n_connected_notified, n_subscribe_requests,
                 events, led_tried, wifi_notified, budget, taskVars>>

\* any task may place any command on the queue it was handed
LedQueueSendAny ==
  /\ led_queue_created
  /\ Len(led_command_queue) < MaxLedBacklog
  /\ \E cmd \in led_command_t :
       led_command_queue' = Append(led_command_queue, cmd)
  /\ led_queue_src' = Append(led_queue_src, "task")
  /\ UNCHANGED <<mainVars, ledVars, wifiVars, topicVars, mqttVars, uartVars,
                 calls, n_connected_notified, n_subscribe_requests, events,
                 led_tried, led_taken, wifi_notified, budget, taskVars>>

\* ----------------------------------------------------------- specifications
Next ==
  \/ MainCreateQueue
  \/ MainLedInit
  \/ MainWifiInit
  \/ MainPrepareTopic
  \/ MainMqttInitStart
  \/ MainMqttInitMark
  \/ MainUartInitStart
  \/ MainUartInitMark
  \/ UartRxTaskStart
  \/ UartRxFrame
  \/ WifiEventStaStart
  \/ WifiEventStaDisconnected
  \/ IpEventStaGotIp
  \/ MqttEventConnected
  \/ MqttEventDisconnected
  \/ MqttEventError
  \/ MqttEventData
  \/ LedProcessCommand

Spec == Init /\ [][Next]_vars

\* the LED control task fed by arbitrary producers
NextLed ==
  \/ MainCreateQueue
  \/ MainLedInit
  \/ LedQueueSendAny
  \/ LedProcessCommand

SpecLed == Init /\ [][NextLed]_vars

\* start-up, the connection events and the serial receive path
NextSerial ==
  \/ MainCreateQueue
  \/ MainLedInit
  \/ MainWifiInit
  \/ MainPrepareTopic
  \/ MainMqttInitStart
  \/ MainMqttInitMark
  \/ MainUartInitStart
  \/ MainUartInitMark
  \/ UartRxTaskStart
  \/ UartRxFrame
  \/ WifiEventStaStart
  \/ WifiEventStaDisconnected
  \/ IpEventStaGotIp
  \/ MqttEventConnected
  \/ MqttEventDisconnected
  \/ MqttEventError

SpecSerial == Init /\ [][NextSerial]_vars

\* start-up, the connection events and the MQTT delivery path
NextDelivery ==
  \/ MainCreateQueue
  \/ MainLedInit
  \/ MainWifiInit
  \/ MainPrepareTopic
  \/ MainMqttInitStart
  \/ MainMqttInitMark
  \/ MainUartInitStart
  \/ MainUartInitMark
  \/ UartRxTaskStart
  \/ WifiEventStaStart
  \/ WifiEventStaDisconnected
  \/ IpEventStaGotIp
  \/ MqttEventConnected
  \/ MqttEventDisconnected
  \/ MqttEventError
  \/ MqttEventData

\* a run that watches deliveries: the station needs two events to get its
\* address, MaxDeliveryWifiEvents
InitDelivery ==
  /\ PowerOn
  /\ budget = [uart |-> MaxFrames, wifi |-> MaxDeliveryWifiEvents,
               mqtt |-> MaxMqttEvents]

SpecDelivery == InitDelivery /\ [][NextDelivery]_vars

\* start-up and the WiFi and MQTT status events
NextStatus ==
  \/ MainCreateQueue
  \/ MainLedInit
  \/ MainWifiInit
  \/ MainPrepareTopic
  \/ MainMqttInitStart
  \/ MainMqttInitMark
  \/ MainUartInitStart
  \/ MainUartInitMark
  \/ UartRxTaskStart
  \/ WifiEventStaStart
  \/ WifiEventStaDisconnected
  \/ IpEventStaGotIp
  \/ MqttEventConnected
  \/ MqttEventDisconnected
  \/ MqttEventError

SpecStatus == Init /\ [][NextStatus]_vars

\* start-up, the status events and the LED task that takes their commands
NextIndicator ==
  \/ MainCreateQueue
  \/ MainLedInit
  \/ MainWifiInit
  \/ MainPrepareTopic
  \/ MainMqttInitStart
  \/ MainMqttInitMark
  \/ MainUartInitStart
  \/ MainUartInitMark
  \/ WifiEventStaStart
  \/ WifiEventStaDisconnected
  \/ IpEventStaGotIp
  \/ MqttEventConnected
  \/ MqttEventDisconnected
  \/ MqttEventError
  \/ LedProcessCommand

SpecIndicator == Init /\ [][NextIndicator]_vars

\* the WiFi events and the LED task in a run long enough for the LED queue
\* to fill up; the other sources are silent
InitBacklog ==
  /\ PowerOn
  /\ budget = [uart |-> 0, wifi |-> MaxBacklogWifiEvents, mqtt |-> 0]

NextBacklog ==
  \/ MainCreateQueue
  \/ MainLedInit
  \/ MainWifiInit
  \/ WifiEventStaStart
  \/ WifiEventStaDisconnected
  \/ IpEventStaGotIp
  \/ LedProcessCommand

SpecBacklog == InitBacklog /\ [][NextBacklog]_vars

\* the WiFi events alone in a run long enough for more than
\* WIFI_CONN_MAX_RETRY disconnections in a row
InitRetries ==
  /\ PowerOn
  /\ budget = [uart |-> 0, wifi |-> MaxRetryWifiEvents, mqtt |-> 0]

NextStation ==
  \/ MainCreateQueue
  \/ MainLedInit
  \/ MainWifiInit
  \/ WifiEventStaStart
  \/ WifiEventStaDisconnected
  \/ IpEventStaGotIp

SpecRetries == InitRetries /\ [][NextStation]_vars

\* app_main up to wifi_conn_init_sta, the WiFi events and the LED task, all
\* of which keep running: a step that can be taken is taken eventually
SpecStationFair == Init /\ [][NextBacklog]_vars /\ WF_vars(NextBacklog)

\* ------------------------------------------------------------- properties
SteadyStates ==
  { LED_CMD_OFF, LED_CMD_WIFI_CONNECTING, LED_CMD_WIFI_CONNECTED,
    LED_CMD_MQTT_CONNECTED, LED_CMD_ERROR }

\* positions in the log of the handler that ran last
CallsOf(op) == {i \in 1..Len(calls) : calls[i].op = op}

LastHandlerIs(op) == calls /= <<>> /\ calls[1].op = op

\* the frame has string topic and payload items in a JSON object
FrameIsValid(frame) ==
  /\ frame.json
  /\ frame.root = "cJSON_Object"
  /\ frame.topic.type = "cJSON_String"
  /\ frame.payload.type = "cJSON_String"

\* C1: a frame that parses as a JSON object with string topic and payload
\* leads to exactly one mqtt_comm_publish call with topic "pub/data/" + the
\* complete topic suffix, the parsed payload, QoS 1 and retain 0, followed by
\* exactly one serial frame: the OK frame if publish returned ESP_OK, the
\* failed frame otherwise.
C1_PublishesPrefixPlusWholeSuffix ==
  (/\ LastHandlerIs("app_uart_rx_callback")
   /\ calls[1].malloc_ok
   /\ FrameIsValid(calls[1].frame))
  => /\ Cardinality(CallsOf("mqtt_comm_publish")) = 1
     /\ Cardinality(CallsOf("uart_comm_transmit")) = 1
     /\ \A i \in CallsOf("mqtt_comm_publish") :
          /\ calls[i].topic =
               APP_MQTT_PUB_BASE_TOPIC \o calls[1].frame.topic.valuestring
          /\ calls[i].data = calls[1].frame.payload.valuestring
          /\ calls[i].qos = 1
          /\ calls[i].retain = 0
          /\ \A j \in CallsOf("uart_comm_transmit") :
               /\ j > i
               /\ calls[j].data = IF calls[i].ret = ESP_OK
                                    THEN MsgOkQueued ELSE MsgPublishFailed

\* C2: a frame that is not valid JSON, or whose topic or payload is missing
\* or not a string, leads to no publish call and to exactly one error frame
\* of the matching kind, on every path including a failed buffer allocation.
C2_MalformedFrameGetsOneErrorFrame ==
  (/\ LastHandlerIs("app_uart_rx_callback")
   /\ ~FrameIsValid(calls[1].frame))
  => /\ CallsOf("mqtt_comm_publish") = {}
     /\ Cardinality(CallsOf("uart_comm_transmit")) = 1
     /\ \A j \in CallsOf("uart_comm_transmit") :
          calls[j].data = IF calls[1].frame.json
                            THEN MsgMissingFields ELSE MsgInvalidJson

\* C3: a delivery whose topic equals the subscription topic leads to exactly
\* one uart_comm_transmit call whose bytes are "MQTT Data: ", the whole
\* delivered payload and CR LF.
C3_MatchingDeliveryRelaysWholePayload ==
  (/\ LastHandlerIs("app_mqtt_data_callback")
   /\ calls[1].topic = mqtt_sub_topic_str)
  => /\ Cardinality(CallsOf("uart_comm_transmit")) = 1
     /\ \A j \in CallsOf("uart_comm_transmit") :
          Take(calls[j].data, calls[j].len) =
            MsgMqttDataPrefix \o calls[1].data \o CRLF

\* C4: a delivery whose topic differs from the subscription topic in length
\* or in any byte leads to no uart_comm_transmit call.
C4_OtherTopicIsNotRelayed ==
  (/\ LastHandlerIs("app_mqtt_data_callback")
   /\ calls[1].topic /= mqtt_sub_topic_str)
  => CallsOf("uart_comm_transmit") = {}

\* a delivery on a proper prefix of the subscription topic was dropped
C4_Witness ==
  /\ LastHandlerIs("app_mqtt_data_callback")
  /\ calls[1].topic = Take(mqtt_sub_topic_str, Len(mqtt_sub_topic_str) - 1)
  /\ Len(mqtt_sub_topic_str) > 1
  /\ CallsOf("uart_comm_transmit") = {}

\* C5: every invocation of app_wifi_status_callback attempts exactly one
\* queue send, and the command depends on the status alone: DISCONNECTED and
\* CONNECTING give WIFI_CONNECTING, CONNECTED_GOT_IP gives WIFI_CONNECTED,
\* CONNECTION_FAILED gives ERROR.
C5_WifiStatusSendsOneCommand ==
  \A i \in CallsOf("app_wifi_status_callback") :
    /\ i + 1 <= Len(calls)
    /\ calls[i + 1].op = "xQueueSend"
    /\ calls[i + 1].cmd =
         CASE calls[i].status = WIFI_CONN_STATUS_DISCONNECTED ->
                LED_CMD_WIFI_CONNECTING
           [] calls[i].status = WIFI_CONN_STATUS_CONNECTING ->
                LED_CMD_WIFI_CONNECTING
           [] calls[i].status = WIFI_CONN_STATUS_CONNECTED_GOT_IP ->
                LED_CMD_WIFI_CONNECTED
           [] calls[i].status = WIFI_CONN_STATUS_CONNECTION_FAILED ->
                LED_CMD_ERROR
    /\ i + 2 <= Len(calls) => calls[i + 2].op /= "xQueueSend"

\* a retry was rejected: DISCONNECTED, CONNECTING and CONNECTION_FAILED were
\* reported in one handler run, each with its command
C5_Witness ==
  /\ Cardinality(CallsOf("app_wifi_status_callback")) = 3
  /\ calls[3].op = "app_wifi_status_callback"
  /\ calls[3].status = WIFI_CONN_STATUS_DISCONNECTED
  /\ calls[4] = [op |-> "xQueueSend", cmd |-> LED_CMD_WIFI_CONNECTING]
  /\ calls[8].op = "app_wifi_status_callback"
  /\ calls[8].status = WIFI_CONN_STATUS_CONNECTION_FAILED
  /\ calls[9] = [op |-> "xQueueSend", cmd |-> LED_CMD_ERROR]

\* C6: app_mqtt_status_callback(CONNECTED) sends LED_CMD_MQTT_CONNECTED and
\* then makes exactly one subscribe request (QoS 1) for the subscription
\* topic; it does not retry, so the subscribe requests of a run are as many
\* as its Connected notifications.
C6_ConnectedSubscribesOnce ==
  /\ n_subscribe_requests = n_connected_notified
  /\ \A i \in CallsOf("app_mqtt_status_callback") :
       calls[i].status = MQTT_CONN_STATUS_CONNECTED =>
         /\ Len(calls) >= i + 2
         /\ calls[i + 1] = [op |-> "xQueueSend", cmd |-> LED_CMD_MQTT_CONNECTED]
         /\ calls[i + 2].op = "mqtt_comm_subscribe"
         /\ calls[i + 2].topic = mqtt_sub_topic_str
         /\ calls[i + 2].topic /= <<>>
         /\ calls[i + 2].qos = 1
         /\ Cardinality(CallsOf("mqtt_comm_subscribe")) = 1

\* the second Connected notification of a run, its subscribe call failing
C6_Witness ==
  /\ n_connected_notified = 2
  /\ LastHandlerIs("app_mqtt_status_callback")
  /\ calls[1].status = MQTT_CONN_STATUS_CONNECTED
  /\ \E j \in CallsOf("mqtt_comm_subscribe") : calls[j].ret /= ESP_OK

\* C7: app_mqtt_status_callback(DISCONNECTED or ERROR) sends exactly one
\* command, LED_CMD_WIFI_CONNECTED if wifi_conn_is_connected() and
\* LED_CMD_WIFI_CONNECTING otherwise, and makes no subscribe request.
C7_SessionLostShowsWifiState ==
  (/\ LastHandlerIs("app_mqtt_status_callback")
   /\ calls[1].status \in {MQTT_CONN_STATUS_DISCONNECTED, MQTT_CONN_STATUS_ERROR})
  => /\ Len(calls) = 2
     /\ calls[2].op = "xQueueSend"
     /\ calls[2].cmd = IF wifi_conn_is_connected
                         THEN LED_CMD_WIFI_CONNECTED
                         ELSE LED_CMD_WIFI_CONNECTING

\* an Error notification while the network is connected
C7_Witness ==
  /\ LastHandlerIs("app_mqtt_status_callback")
  /\ calls[1].status = MQTT_CONN_STATUS_ERROR
  /\ wifi_conn_is_connected
  /\ calls[2] = [op |-> "xQueueSend", cmd |-> LED_CMD_WIFI_CONNECTED]

\* the LED task takes the head of the queue and processes it
LedTakes(cmd) ==
  /\ led_command_queue /= <<>>
  /\ Head(led_command_queue) = cmd
  /\ led_command_queue' = Tail(led_command_queue)
  /\ received_cmd' = cmd

\* C8: processing LED_CMD_UART_RX_RECEIVED or LED_CMD_MQTT_RX_RECEIVED
\* leaves current_led_steady_state as it was.
C8_ActivityKeepsSteadyState ==
  [][\A cmd \in ActivityCommands :
       LedTakes(cmd) => current_led_steady_state' = current_led_steady_state]_vars

\* an activity command was processed while the steady state was, and still
\* is, LED_CMD_MQTT_CONNECTED
C8_Witness ==
  /\ received_cmd \in ActivityCommands
  /\ current_led_steady_state = LED_CMD_MQTT_CONNECTED

\* C9: the steady state starts as LED_CMD_OFF, is always one of the five
\* steady states, and processing one of those five commands sets it to that
\* command whatever it was before.
C9_StateCommandSetsSteadyState ==
  /\ current_led_steady_state = LED_CMD_OFF
  /\ [](current_led_steady_state \in SteadyStates)
  /\ [][\A cmd \in SteadyStates :
          LedTakes(cmd) => current_led_steady_state' = cmd]_vars

\* LED_CMD_ERROR was processed and is the steady state
C9_Witness ==
  /\ received_cmd = LED_CMD_ERROR
  /\ current_led_steady_state = LED_CMD_ERROR

\* C10: after an activity command is processed with steady state
\* LED_CMD_MQTT_CONNECTED the output was first forced low, then pulsed, and
\* is high again; with any other steady state the output ends low.
C10_ActivityRestoresOutput ==
  received_cmd \in ActivityCommands =>
    IF current_led_steady_state = LED_CMD_MQTT_CONNECTED
      THEN /\ gpio_trace[1] = 0
           /\ \E i \in 2..Len(gpio_trace) :
                /\ gpio_trace[i] = 1
                /\ \E j \in (i + 1)..Len(gpio_trace) : gpio_trace[j] = 0
           /\ gpio_trace[Len(gpio_trace)] = 1
           /\ gpio_level = 1
      ELSE /\ gpio_level = 0
           /\ gpio_trace[Len(gpio_trace)] = 0

\* a serial-activity blink on top of the solid-on state, output high again
C10_Witness ==
  /\ received_cmd = LED_CMD_UART_RX_RECEIVED
  /\ current_led_steady_state = LED_CMD_MQTT_CONNECTED
  /\ gpio_trace = <<0, 1, 0, 1, 0, 1>>
  /\ gpio_level = 1

\* the commands the queue accepted from the handlers, in the order of their
\* xQueueSend calls
LedAccepted ==
  LET a == SelectSeq(led_tried, LAMBDA e : e.ok)
  IN  [i \in 1..Len(a) |-> [src |-> a[i].src, cmd |-> a[i].cmd]]

\* the commands waiting in the queue, head first
LedQueued ==
  [i \in 1..Len(led_command_queue) |->
     [src |-> led_queue_src[i], cmd |-> led_command_queue[i]]]

\* the commands of one producer context in a sequence of [src, cmd] entries
CmdsOf(entries, p) ==
  LET a == SelectSeq(entries, LAMBDA e : e.src = p)
  IN  [i \in 1..Len(a) |-> a[i].cmd]

IsPrefix(a, b) == Len(a) <= Len(b) /\ a = SubSeq(b, 1, Len(a))

\* C11: the commands the LED task has taken, followed by those still queued,
\* are the accepted commands in the order they were sent; so each producer's
\* commands are taken in the order it sent them, a dropped command being
\* skipped.  For the WiFi producer the attempts are one per notified status,
\* in order: DISCONNECTED, CONNECTING, CONNECTED_GOT_IP give WIFI_CONNECTING,
\* WIFI_CONNECTING, WIFI_CONNECTED.
C11_CommandsTakenInSendOrder ==
  /\ LedAccepted = led_taken \o LedQueued
  /\ \A p \in Producers : IsPrefix(CmdsOf(led_taken, p), CmdsOf(LedAccepted, p))
  /\ CmdsOf(led_tried, "wifi") =
       [i \in 1..Len(wifi_notified) |->
          CASE wifi_notified[i] = WIFI_CONN_STATUS_DISCONNECTED ->
                 LED_CMD_WIFI_CONNECTING
            [] wifi_notified[i] = WIFI_CONN_STATUS_CONNECTING ->
                 LED_CMD_WIFI_CONNECTING
            [] wifi_notified[i] = WIFI_CONN_STATUS_CONNECTED_GOT_IP ->
                 LED_CMD_WIFI_CONNECTED
            [] wifi_notified[i] = WIFI_CONN_STATUS_CONNECTION_FAILED ->
                 LED_CMD_ERROR]

\* the statuses DISCONNECTED, CONNECTING, CONNECTED_GOT_IP were notified last
\* and the LED task has taken their three commands, a command of the MQTT
\* context among those it took
C11_Witness ==
  /\ Len(wifi_notified) >= 3
  /\ SubSeq(wifi_notified, Len(wifi_notified) - 2, Len(wifi_notified)) =
       <<WIFI_CONN_STATUS_DISCONNECTED, WIFI_CONN_STATUS_CONNECTING,
         WIFI_CONN_STATUS_CONNECTED_GOT_IP>>
  /\ Len(CmdsOf(led_taken, "wifi")) = Len(wifi_notified)
  /\ SubSeq(CmdsOf(led_taken, "wifi"), Len(wifi_notified) - 2,
            Len(wifi_notified)) =
       <<LED_CMD_WIFI_CONNECTING, LED_CMD_WIFI_CONNECTING,
         LED_CMD_WIFI_CONNECTED>>
  /\ CmdsOf(led_taken, "mqtt") /= <<>>

\* the xQueueSend attempts made in this step
NewAttempts == SubSeq(led_tried', Len(led_tried) + 1, Len(led_tried'))

\* the commands among them that the queue accepted
NewAccepted ==
  LET a == SelectSeq(NewAttempts, LAMBDA e : e.ok)
  IN  [i \in 1..Len(a) |-> a[i].cmd]

\* C12: the queue never holds more than 15 commands.  A handler's send is
\* dropped exactly when the queue holds 15 commands: the queue keeps its
\* contents, and the handler goes on: every status it notifies still
\* attempts its one send, the WiFi handler still calls esp_wifi_connect, and
\* neither app_main nor the WiFi component changes state because of it.
C12_FullQueueDropsTheCommand ==
  /\ [](Len(led_command_queue) <= QueueLength)
  /\ [][events' /= events =>
          /\ led_command_queue' = led_command_queue \o NewAccepted
          /\ \A i \in 1..Len(NewAttempts) :
               NewAttempts[i].ok <=>
                 Len(led_command_queue) +
                 Cardinality({j \in 1..(i - 1) : NewAttempts[j].ok})
                   < QueueLength
          /\ Len(led_command_queue) = QueueLength =>
               led_command_queue' = led_command_queue
          /\ Len(NewAttempts) =
               Cardinality({i \in 1..Len(calls') :
                              calls'[i].op = "app_wifi_status_callback"})
          /\ calls'[1].op = "wifi_event_handler" =>
               \E i \in 1..Len(calls') : calls'[i].op = "esp_wifi_connect"
          /\ main_pc' = main_pc
          /\ s_wifi_initialized' = s_wifi_initialized
          /\ s_wifi_event_group' = s_wifi_event_group
          /\ wifi_status_callback' = wifi_status_callback]_vars

\* the queue holds 15 commands and the station-disconnected handler ran on
\* it: its sends were dropped, it notified three statuses and it called
\* esp_wifi_connect
C12_Witness ==
  /\ Len(led_command_queue) = QueueLength
  /\ Len(led_tried) >= 3
  /\ \A i \in (Len(led_tried) - 2)..Len(led_tried) : ~led_tried[i].ok
  /\ calls[1].op = "wifi_event_handler"
  /\ calls[1].event_id = "WIFI_EVENT_STA_DISCONNECTED"
  /\ Cardinality(CallsOf("app_wifi_status_callback")) = 3
  /\ CallsOf("esp_wifi_connect") /= {}

WifiStatusCall(status) == [op |-> "app_wifi_status_callback", status |-> status]

\* C19: whatever s_retry_num is, the handler of a station-disconnected event
\* clears WIFI_CONNECTED_BIT, notifies DISCONNECTED, notifies CONNECTING and
\* then calls esp_wifi_connect once, in that order; the handler of the
\* station-start event notifies CONNECTING and then calls esp_wifi_connect.
C19_DisconnectedAlwaysRetries ==
  (calls /= <<>> /\ calls[1].op = "wifi_event_handler") =>
    IF calls[1].event_id = "WIFI_EVENT_STA_DISCONNECTED"
      THEN /\ Len(calls) >= 7
           /\ calls[2].op = "xEventGroupClearBits"
           /\ calls[3] = WifiStatusCall(WIFI_CONN_STATUS_DISCONNECTED)
           /\ calls[5] = WifiStatusCall(WIFI_CONN_STATUS_CONNECTING)
           /\ CallsOf("esp_wifi_connect") = {7}
           /\ ~wifi_connected_bit
           /\ s_retry_num = calls[1].retry_num + 1
      ELSE /\ calls[1].event_id = "WIFI_EVENT_STA_START"
           /\ Len(calls) >= 4
           /\ calls[2] = WifiStatusCall(WIFI_CONN_STATUS_CONNECTING)
           /\ CallsOf("esp_wifi_connect") = {4}

\* the station was disconnected for the eleventh time in a row, beyond
\* WIFI_CONN_MAX_RETRY, and the handler called esp_wifi_connect again
C19_Witness ==
  /\ calls /= <<>>
  /\ calls[1].op = "wifi_event_handler"
  /\ calls[1].event_id = "WIFI_EVENT_STA_DISCONNECTED"
  /\ calls[1].retry_num = WIFI_CONN_MAX_RETRY
  /\ calls[7] = [op |-> "esp_wifi_connect", ok |-> TRUE]

\* C20: once CONNECTION_FAILED was the status notified last, and while the
\* station is not connected, a further WiFi handler runs (only they call
\* esp_wifi_connect); asked only of runs that may still deliver WiFi events.
C20_FailedIsFollowedByAnAttempt ==
  \A n \in 0..(MaxWifiEvents - 1) :
    [] ((/\ wifi_notified /= <<>>
         /\ wifi_notified[Len(wifi_notified)] = WIFI_CONN_STATUS_CONNECTION_FAILED
         /\ events.wifi = n
         /\ n < budget.wifi)
        => <> (events.wifi > n \/ wifi_conn_is_connected))

\* ------------------- mqtt_comm.c step by step: one action per lock operation
UseOps ==
  {"mqtt_comm_publish", "mqtt_comm_subscribe", "mqtt_comm_unsubscribe"}
EventOps ==
  {"MQTT_EVENT_CONNECTED", "MQTT_EVENT_DISCONNECTED", "MQTT_EVENT_ERROR"}
portMAX_DELAY == "portMAX_DELAY"

\* how long each function waits for s_client_mutex
TakeTimeout(op) ==
  CASE op \in UseOps -> "100ms"
    [] op = "mqtt_comm_is_connected" -> "50ms"
    [] op = "mqtt_comm_deinit" -> "500ms"
    [] op \in EventOps -> portMAX_DELAY

\* the status mqtt_event_handler reports for an event
EventStatus(op) ==
  CASE op = "MQTT_EVENT_CONNECTED" -> MQTT_CONN_STATUS_CONNECTED
    [] op = "MQTT_EVENT_DISCONNECTED" -> MQTT_CONN_STATUS_DISCONNECTED
    [] op = "MQTT_EVENT_ERROR" -> MQTT_CONN_STATUS_ERROR

Returned(call, ret, cause) ==
  [NoCall EXCEPT !.op = call.op, !.ret = ret, !.cause = cause]

\* publish, subscribe and unsubscribe under the lock:
\*   if (s_is_connected && s_client) ret = (msg_id != -1) ? ESP_OK : ESP_FAIL
\* and ret stays ESP_FAIL otherwise
UseResult_OkWhenNotConnected(flag, client, client_ok) ==
  IF flag /\ client /= "NULL"
    THEN IF client_ok THEN [ret |-> ESP_OK, cause |-> "accepted"]
         ELSE [ret |-> ESP_FAIL, cause |-> "rejected"]
    ELSE [ret |-> ESP_OK, cause |-> "not_connected"]

UseResult(flag, client, client_ok) ==
  IF flag /\ client /= "NULL"
    THEN IF client_ok THEN [ret |-> ESP_OK, cause |-> "accepted"]
         ELSE [ret |-> ESP_FAIL, cause |-> "rejected"]
    ELSE [ret |-> ESP_FAIL, cause |-> "not_connected"]

\* what a step of mqtt_comm.c leaves alone outside the component
SessionFrame ==
  UNCHANGED <<mainVars, ledVars, wifiVars, topicVars, uartVars, tx, uart_wire>>

\* the component is used once app_main has reached mqtt_comm_init (the LED
\* queue exists and the subscription topic is prepared), by the tasks of a
\* run of the session, or once app_main is in its status loop
SessionOpen == main_pc \in {"mqtt_init", "idle"} /\ ~aborted

\* entry of publish, subscribe, unsubscribe, is_connected and deinit up to
\* the call of xSemaphoreTake
SessionCall(t, op, topic) ==
  /\ SessionOpen
  /\ api[t].pc = "idle"
  /\ LET call == [NoCall EXCEPT !.op = op]
         early ==
           CASE op \in UseOps /\ ~s_is_initialized -> "not_initialized"
             [] op \in UseOps /\ topic = "NULL" -> "null_topic"
             [] op = "mqtt_comm_deinit" /\ ~s_is_initialized ->
                  "not_initialized"
             [] OTHER -> "none"
     IN  api' = [api EXCEPT ![t] =
                   CASE early = "none" -> [call EXCEPT !.pc = "take"]
                     [] op \in UseOps ->
                          Returned(call, ESP_ERR_INVALID_ARG, early)
                     [] OTHER -> NoCall]
  /\ SessionFrame
  /\ UNCHANGED <<led_command_queue, mqttVars, histVars, aborted>>

\* xSemaphoreTake(s_client_mutex, ticks) returns: with the mutex, or without
\* it when the time ran out; a null handle stops the firmware
SessionTake(t) ==
  /\ SessionOpen
  /\ api[t].pc = "take"
  /\ \/ /\ s_client_mutex = "NULL"
        /\ aborted' = TRUE
        /\ UNCHANGED <<api, s_client_mutex>>
     \/ /\ s_client_mutex = "free"
        /\ s_client_mutex' = t
        /\ api' = [api EXCEPT ![t].pc = "held"]
        /\ UNCHANGED aborted
     \/ /\ s_client_mutex \in SessionTasks
        /\ TakeTimeout(api[t].op) /= portMAX_DELAY
        /\ api' = [api EXCEPT ![t] =
                     CASE @.op = "mqtt_comm_deinit" ->
                            [@ EXCEPT !.pc = "tail", !.ret = ESP_FAIL,
                                      !.cause = "timeout"]
                       [] @.op = "mqtt_comm_is_connected" ->
                            Returned(@, FALSE, "timeout")
                       [] OTHER -> Returned(@, ESP_FAIL, "timeout")]
        /\ UNCHANGED <<s_client_mutex, aborted>>
  /\ SessionFrame
  /\ UNCHANGED <<led_command_queue, s_client, s_is_connected,
                 s_is_initialized, mqtt_status_callback, s_data_callback,
                 s_default_client_id, mqtt_drv, histVars>>

\* the statements between xSemaphoreTake and xSemaphoreGive
SessionBody(t) ==
  /\ SessionOpen
  /\ api[t].pc = "held"
  /\ LET op == api[t].op
         seen == [api[t] EXCEPT !.pc = "give", !.flag = s_is_connected,
                                !.client = s_client]
     IN  CASE op \in UseOps ->
                /\ \E client_ok \in BOOLEAN :
                     LET r == UseResult(s_is_connected, s_client, client_ok)
                     IN  api' = [api EXCEPT ![t] =
                                   [seen EXCEPT !.ret = r.ret,
                                                !.cause = r.cause]]
                /\ UNCHANGED <<s_client, s_is_connected, s_is_initialized,
                               mqtt_drv>>
           [] op = "mqtt_comm_is_connected" ->
                /\ api' = [api EXCEPT ![t] =
                             [seen EXCEPT !.ret = s_is_connected,
                                          !.cause = "read"]]
                /\ UNCHANGED <<s_client, s_is_connected, s_is_initialized,
                               mqtt_drv>>
           [] op = "mqtt_comm_deinit" ->
                /\ api' = [api EXCEPT ![t] =
                             [seen EXCEPT !.ret = ESP_OK, !.cause = "done"]]
                /\ s_client' = "NULL"
                /\ s_is_connected' =
                     IF s_client /= "NULL" THEN FALSE ELSE s_is_connected
                /\ mqtt_drv' = IF s_client /= "NULL" THEN "none" ELSE mqtt_drv
                /\ s_is_initialized' = FALSE
           [] op \in EventOps ->
                /\ api' = [api EXCEPT ![t] = seen]
                /\ s_is_connected' = (op = "MQTT_EVENT_CONNECTED")
                /\ UNCHANGED <<s_client, s_is_initialized, mqtt_drv>>
  /\ SessionFrame
  /\ UNCHANGED <<led_command_queue, s_client_mutex, mqtt_status_callback,
                 s_data_callback, s_default_client_id, histVars, aborted>>

\* xSemaphoreGive(s_client_mutex), then the function returns; deinit and the
\* event handler go on. Giving a null handle stops the firmware, giving a
\* mutex the task does not hold changes nothing
SessionGive(t) ==
  /\ SessionOpen
  /\ api[t].pc = "give"
  /\ IF s_client_mutex = "NULL"
       THEN /\ aborted' = TRUE
            /\ UNCHANGED <<api, s_client_mutex>>
       ELSE /\ s_client_mutex' = IF s_client_mutex = t THEN "free"
                                 ELSE s_client_mutex
            /\ api' = [api EXCEPT ![t] =
                         CASE @.op = "mqtt_comm_deinit" ->
                                [@ EXCEPT !.pc = "tail"]
                           [] @.op \in EventOps -> [@ EXCEPT !.pc = "notify"]
                           [] OTHER -> Returned(@, @.ret, @.cause)]
            /\ UNCHANGED aborted
  /\ SessionFrame
  /\ UNCHANGED <<led_command_queue, s_client, s_is_connected,
                 s_is_initialized, mqtt_status_callback, s_data_callback,
                 s_default_client_id, mqtt_drv, histVars>>

\* mqtt_comm_deinit after the locked part, on the timeout path as well: the
\* mutex is deleted, the client id freed and the callbacks cleared
DeinitTail(t) ==
  /\ SessionOpen
  /\ api[t].pc = "tail"
  /\ s_client_mutex' = "NULL"
  /\ s_default_client_id' = FALSE
  /\ mqtt_status_callback' = FALSE
  /\ s_data_callback' = FALSE
  /\ api' = [api EXCEPT ![t] = NoCall]
  /\ SessionFrame
  /\ UNCHANGED <<led_command_queue, s_client, s_is_connected,
                 s_is_initialized, mqtt_drv, histVars, aborted>>

\* mqtt_comm_init up to the client id: the callbacks are stored, then the
\* mutex is created
InitCreate(t) ==
  /\ SessionOpen
  /\ api[t].pc = "idle"
  /\ LET call == [NoCall EXCEPT !.op = "mqtt_comm_init"]
     IN  IF s_is_initialized
           THEN /\ api' = [api EXCEPT ![t] = NoCall]
                /\ UNCHANGED <<s_client_mutex, mqtt_status_callback,
                               s_data_callback, s_default_client_id>>
           ELSE \E fail \in {"none", "mutex", "client_id"} :
                  /\ mqtt_status_callback' = TRUE
                  /\ s_data_callback' = TRUE
                  /\ s_client_mutex' = IF fail = "none" THEN "free" ELSE "NULL"
                  /\ s_default_client_id' = (fail = "none")
                  /\ api' = [api EXCEPT ![t] =
                               IF fail = "none"
                                 THEN [call EXCEPT !.pc = "init_client"]
                                 ELSE NoCall]
  /\ SessionFrame
  /\ UNCHANGED <<led_command_queue, s_client, s_is_connected,
                 s_is_initialized, mqtt_drv, histVars, aborted>>

\* mqtt_comm_init from esp_mqtt_client_init to esp_mqtt_client_start: the
\* handle is stored in s_client; a failure clears it and deletes the mutex
InitClient(t) ==
  /\ SessionOpen
  /\ api[t].pc = "init_client"
  /\ \E fail \in {"none", "client_init", "register", "start"} :
       /\ s_client' = IF fail = "none" THEN "client" ELSE "NULL"
       /\ mqtt_drv' = IF fail = "none" THEN "disconnected" ELSE mqtt_drv
       /\ s_client_mutex' = IF fail = "none" THEN s_client_mutex ELSE "NULL"
       /\ s_default_client_id' = (fail = "none")
       /\ api' = [api EXCEPT ![t] =
                    IF fail = "none" THEN [@ EXCEPT !.pc = "init_mark"]
                    ELSE NoCall]
  /\ SessionFrame
  /\ UNCHANGED <<led_command_queue, s_is_connected, s_is_initialized,
                 mqtt_status_callback, s_data_callback, histVars, aborted>>

\* mqtt_comm_init: s_is_initialized = true; return ESP_OK
InitMark(t) ==
  /\ SessionOpen
  /\ api[t].pc = "init_mark"
  /\ s_is_initialized' = TRUE
  /\ api' = [api EXCEPT ![t] = NoCall]
  /\ SessionFrame
  /\ UNCHANGED <<led_command_queue, s_client, s_client_mutex, s_is_connected,
                 mqtt_status_callback, s_data_callback, s_default_client_id,
                 mqtt_drv, histVars, aborted>>

\* the client task enters mqtt_event_handler with a status event and calls
\* xSemaphoreTake(s_client_mutex, portMAX_DELAY)
EventBegin(op) ==
  /\ SessionOpen
  /\ api["mqtt"].pc = "idle"
  /\ events.mqtt < budget.mqtt
  /\ mqtt_drv \in {"disconnected", "connected"}
  /\ op = "MQTT_EVENT_CONNECTED" =>
       mqtt_drv = "disconnected" /\ wifi_drv = "got_ip"
  /\ mqtt_drv' = CASE op = "MQTT_EVENT_CONNECTED" -> "connected"
                   [] op = "MQTT_EVENT_DISCONNECTED" -> "disconnected"
                   [] OTHER -> mqtt_drv
  /\ api' = [api EXCEPT !["mqtt"] =
               [NoCall EXCEPT !.op = op, !.pc = "take"]]
  /\ SessionFrame
  /\ UNCHANGED <<led_command_queue, s_client, s_client_mutex, s_is_connected,
                 s_is_initialized, mqtt_status_callback, s_data_callback,
                 s_default_client_id, histVars, aborted>>

\* mqtt_event_handler after the lock is given back: s_status_callback(status)
\* if it is set. The callback's subscribe request gets the lock when it is
\* free and gives up after its 100 ms when another task holds it
EventNotify ==
  /\ SessionOpen
  /\ api["mqtt"].pc = "notify"
  /\ \E env \in SubscribeEnvs :
       /\ env.session_take = (s_client_mutex = "free")
       /\ LET w0 == World(led_command_queue, s_is_connected)
          IN  Commit(IF mqtt_status_callback
                       THEN app_mqtt_status_callback(
                              w0, EventStatus(api["mqtt"].op), env)
                       ELSE w0,
                     "mqtt")
  /\ api' = [api EXCEPT !["mqtt"] = NoCall]
  /\ SessionFrame
  /\ UNCHANGED <<mqttVars, aborted>>

NextSession ==
  \/ MainCreateQueue
  \/ MainLedInit
  \/ MainWifiInit
  \/ MainPrepareTopic
  \/ WifiEventStaStart
  \/ IpEventStaGotIp
  \/ InitCreate("task_a")
  \/ InitClient("task_a")
  \/ InitMark("task_a")
  \/ \E topic \in {"NULL", "topic"} :
       \/ SessionCall("task_b", "mqtt_comm_publish", topic)
       \/ SessionCall("task_b", "mqtt_comm_subscribe", topic)
       \/ SessionCall("task_b", "mqtt_comm_unsubscribe", topic)
  \/ SessionCall("task_b", "mqtt_comm_is_connected", "none")
  \/ SessionCall("task_a", "mqtt_comm_deinit", "none")
  \/ \E t \in SessionTasks : SessionTake(t)
  \/ \E t \in SessionTasks : SessionBody(t)
  \/ \E t \in SessionTasks : SessionGive(t)
  \/ DeinitTail("task_a")
  \/ \E op \in EventOps : EventBegin(op)
  \/ EventNotify

\* a run of the session component: one hardware address, and as many status
\* events of the client as MaxSessionEvents
InitSession ==
  /\ PowerOn
  /\ mac = <<0, 26, 43, 60, 77, 94>>
  /\ budget = [uart |-> 0, wifi |-> MaxWifiEvents, mqtt |-> MaxSessionEvents]

SpecSession == InitSession /\ [][NextSession]_vars

\* ----------------------------------------------- properties of the session
\* C13: a wait made in event context gives up after a finite time: a client
\* task that waits in mqtt_event_handler for the session lock another task
\* holds does not wait with portMAX_DELAY
C13_EventContextWaitsAreBounded ==
  \A t \in SessionTasks :
    (/\ api[t].op \in EventOps
     /\ api[t].pc = "take"
     /\ s_client_mutex \in SessionTasks \ {t})
    => TakeTimeout(api[t].op) /= portMAX_DELAY

\* C14: a step of mqtt_comm_init, mqtt_comm_deinit or mqtt_event_handler
\* that writes s_client or s_is_connected is taken by the task that holds
\* s_client_mutex
C14_SessionStateWrittenUnderLock ==
  [][(s_client' /= s_client \/ s_is_connected' /= s_is_connected)
       => \E t \in SessionTasks : api'[t] /= api[t] /\ s_client_mutex = t]_vars

\* the values a function returns when it got the lock
AnsweredUnderLock(op) ==
  IF op \in UseOps
    THEN {UseResult(flag, client, client_ok).ret :
            flag \in BOOLEAN, client \in {"NULL", "client"},
            client_ok \in BOOLEAN}
    ELSE BOOLEAN

\* C15: a call that did not get the session lock in time returns a value the
\* same function never returns for "connected" or "not connected"
C15_LockTimeoutIsDistinguishable ==
  \A t \in SessionTasks :
    (api[t].pc = "idle" /\ api[t].cause = "timeout")
    => api[t].ret \notin AnsweredUnderLock(api[t].op)

\* C16: a call that holds the lock never reads the flag true with a null
\* handle, and what it reads does not change while it holds the lock: no
\* step of another task changes the flag, nor the handle under publish,
\* subscribe or unsubscribe
C16_NoTornPairUnderLock ==
  /\ [](\A t \in SessionTasks :
          (api[t].op \in UseOps /\ api[t].pc = "give")
          => ~(api[t].flag /\ api[t].client = "NULL"))
  /\ [][\A t \in SessionTasks :
          (s_client_mutex = t /\ s_client_mutex' = t /\ api'[t] = api[t])
          => /\ s_is_connected' = s_is_connected
             /\ api[t].op \in UseOps => s_client' = s_client]_vars

\* C18: publish, subscribe and unsubscribe return ESP_ERR_INVALID_ARG when
\* called before initialization or with a null topic, ESP_FAIL without a
\* call of the client when the flag they read is false, and ESP_OK only when
\* the client accepted the request while the flag was true
C18_UseReturnValues ==
  /\ [](\A t \in SessionTasks :
          api[t].op \in UseOps =>
            /\ api[t].cause \in {"not_initialized", "null_topic"}
                 => api[t].ret = ESP_ERR_INVALID_ARG
            /\ (api[t].pc = "give" /\ ~api[t].flag)
                 => (api[t].ret = ESP_FAIL /\ api[t].cause = "not_connected")
            /\ api[t].ret = ESP_OK => api[t].cause = "accepted"
            /\ (api[t].pc = "give" /\ api[t].cause = "accepted")
                 => (api[t].flag /\ api[t].client /= "NULL"))
  /\ [][\A t \in SessionTasks :
          (/\ api[t].pc = "idle"
           /\ api'[t] /= api[t]
           /\ api'[t].op \in UseOps
           /\ ~s_is_initialized)
          => (api'[t].pc = "idle" /\ api'[t].ret = ESP_ERR_INVALID_ARG)]_vars

C18_Witness ==
  \E t \in SessionTasks :
    /\ api[t].op = "mqtt_comm_unsubscribe"
    /\ api[t].pc = "idle"
    /\ api[t].ret = ESP_OK
    /\ s_is_connected

\* ---------- uart_comm_transmit step by step: take, uart_write_bytes, give
\* the handler of task t ended in world w; if it called uart_comm_transmit
\* and the call passed its checks, the task goes on to xSemaphoreTake with
\* the result that uart_write_bytes will give
TransmitStart(t, w) ==
  LET reqs == SelectSeq(w.log, LAMBDA e : e.op = "uart_comm_transmit")
  IN  tx' = [tx EXCEPT ![t] =
               IF reqs /= <<>> /\ s_uart_initialized /\ reqs[1].len /= 0
                 THEN [pc |-> "take", ret |-> reqs[1].ret]
                 ELSE NoTransmit]

\* one pass of the receive loop: app_uart_rx_callback up to the point where
\* its uart_comm_transmit call waits for s_tx_mutex. The frames are those
\* with an absent or a well-formed topic and payload: one for each response
UartRxFrameToTransmit ==
  /\ uart_rx_task = "running"
  /\ s_rx_callback
  /\ tx["uart"].pc = "idle"
  /\ events.uart < budget.uart
  /\ \E frame \in {f \in Frames :
                      /\ f.topic \in {cJSON_Absent, cJSON_String(TopicTemp)}
                      /\ f.payload \in {cJSON_Absent,
                                        cJSON_String(Payload235)}},
        env \in FrameEnvs :
       LET w == app_uart_rx_callback(World(led_command_queue, s_is_connected),
                                     frame, env)
       IN  Commit(w, "uart") /\ TransmitStart("uart", w)
  /\ UNCHANGED <<mainVars, ledVars, wifiVars, topicVars, mqttVars, uartVars,
                 api, aborted, uart_wire>>

\* MQTT_EVENT_DATA: app_mqtt_data_callback up to the point where its
\* uart_comm_transmit call waits for s_tx_mutex. The message arrives on the
\* subscribed topic or on a longer one
MqttEventDataToTransmit ==
  /\ mqtt_drv = "connected"
  /\ tx["mqtt"].pc = "idle"
  /\ events.mqtt < budget.mqtt
  /\ \E topic \in {mqtt_sub_topic_str, mqtt_sub_topic_str \o <<"0">>},
        data \in {PayloadHello}, env \in DeliveryEnvs :
       LET w0 == World(led_command_queue, s_is_connected)
           w == IF s_data_callback
                  THEN app_mqtt_data_callback(w0, topic, Len(topic), data,
                                              Len(data), env)
                  ELSE w0
       IN  Commit(w, "mqtt") /\ TransmitStart("mqtt", w)
  /\ UNCHANGED <<mainVars, ledVars, wifiVars, topicVars, mqttVars, uartVars,
                 api, aborted, uart_wire>>

TransmitFrame ==
  UNCHANGED <<mainVars, led_command_queue, ledVars, wifiVars, topicVars,
              mqttVars, s_uart_initialized, s_rx_callback, uart_rx_task,
              histVars, api, aborted>>

\* xSemaphoreTake without the wait: the task goes on whether or not another
\* task holds the mutex
TxTake_NoWait(t) ==
  /\ tx[t].pc = "take"
  /\ s_tx_mutex' = IF s_tx_mutex = "free" THEN t ELSE s_tx_mutex
  /\ tx' = [tx EXCEPT ![t].pc = "write"]
  /\ TransmitFrame
  /\ UNCHANGED uart_wire

\* xSemaphoreTake(s_tx_mutex, portMAX_DELAY) returns with the mutex
TxTake(t) ==
  /\ tx[t].pc = "take"
  /\ s_tx_mutex = "free"
  /\ s_tx_mutex' = t
  /\ tx' = [tx EXCEPT ![t].pc = "write"]
  /\ TransmitFrame
  /\ UNCHANGED uart_wire

\* uart_write_bytes hands the frame to the driver, which may take it in two
\* parts when its buffer is full; a failed call writes nothing
TxWrite(t) ==
  /\ tx[t].pc \in {"write", "write_rest"}
  /\ IF tx[t].ret /= ESP_OK
       THEN /\ tx' = [tx EXCEPT ![t].pc = "give"]
            /\ UNCHANGED uart_wire
       ELSE /\ uart_wire' = [by |-> t,
                             part |-> IF tx[t].pc = "write" THEN 1 ELSE 2]
            /\ tx' = [tx EXCEPT ![t].pc =
                        IF tx[t].pc = "write" THEN "write_rest" ELSE "give"]
  /\ TransmitFrame
  /\ UNCHANGED s_tx_mutex

\* xSemaphoreGive(s_tx_mutex); return ret
TxGive(t) ==
  /\ tx[t].pc = "give"
  /\ s_tx_mutex' = IF s_tx_mutex = t THEN "free" ELSE s_tx_mutex
  /\ tx' = [tx EXCEPT ![t].pc = "idle"]
  /\ TransmitFrame
  /\ UNCHANGED uart_wire

\* a run that watches the serial port: one hardware address, the station
\* connects, the session connects and messages arrive
InitTransmit ==
  /\ PowerOn
  /\ mac = <<0, 26, 43, 60, 77, 94>>
  /\ budget = [uart |-> MaxFrames, wifi |-> MaxWifiEvents,
               mqtt |-> MaxTransmitEvents]

NextTransmit ==
  \/ MainCreateQueue
  \/ MainLedInit
  \/ MainWifiInit
  \/ MainPrepareTopic
  \/ MainMqttInitStart
  \/ MainMqttInitMark
  \/ MainUartInitStart
  \/ MainUartInitMark
  \/ UartRxTaskStart
  \/ WifiEventStaStart
  \/ IpEventStaGotIp
  \/ MqttEventConnected
  \/ UartRxFrameToTransmit
  \/ MqttEventDataToTransmit
  \/ \E t \in TransmitTasks : TxTake(t)
  \/ \E t \in TransmitTasks : TxWrite(t)
  \/ \E t \in TransmitTasks : TxGive(t)

SpecTransmit == InitTransmit /\ [][NextTransmit]_vars

\* C17: at most one task is between xSemaphoreTake and xSemaphoreGive of
\* uart_comm_transmit, and the parts of a frame reach the port one after the
\* other: a first part follows a complete frame, a second part follows the
\* first part of the same task
C17_OneWriterOnThePort ==
  /\ [](\A t1, t2 \in TransmitTasks :
          (/\ tx[t1].pc \in {"write", "write_rest", "give"}
           /\ tx[t2].pc \in {"write", "write_rest", "give"})
          => t1 = t2)
  /\ [][uart_wire' /= uart_wire
          => \/ uart_wire'.part = 1 /\ uart_wire.part \in {0, 2}
             \/ /\ uart_wire'.part = 2
                /\ uart_wire.part = 1
                /\ uart_wire.by = uart_wire'.by]_vars

C17_Witness ==
  /\ uart_wire = [by |-> "mqtt", part |-> 1]
  /\ tx["mqtt"].pc = "write_rest"
  /\ tx["uart"].pc = "take"

\* ------------------------------------------ properties across components
\* C21: whenever the session's connected flag is true, the station's
\* connected bit is set
C21_SessionConnectedOnlyWithNetwork ==
  s_is_connected => wifi_connected_bit

\* C22: with the LED task running, no command dropped, at least one status
\* reported and the queue empty, the steady state shows the connectivity:
\* LED_CMD_MQTT_CONNECTED exactly when the session flag is true,
\* LED_CMD_WIFI_CONNECTED when only the station is connected, and
\* LED_CMD_WIFI_CONNECTING or LED_CMD_ERROR when the station is not connected
C22_IndicatorShowsConnectivity ==
  (/\ led_task_started
   /\ led_command_queue = <<>>
   /\ led_tried /= <<>>
   /\ \A i \in 1..Len(led_tried) : led_tried[i].ok)
  => /\ (current_led_steady_state = LED_CMD_MQTT_CONNECTED) <=> s_is_connected
     /\ (~s_is_connected /\ wifi_connected_bit)
          => current_led_steady_state = LED_CMD_WIFI_CONNECTED
     /\ (~s_is_connected /\ ~wifi_connected_bit)
          => current_led_steady_state \in {LED_CMD_WIFI_CONNECTING,
                                           LED_CMD_ERROR}

\* ------------------------------------------ order of a handler's calls
SendsOf(cmd) ==
  {i \in CallsOf("xQueueSend") : calls[i].cmd = cmd}

\* C23: the first call app_uart_rx_callback makes, for every frame, is the
\* xQueueSend of LED_CMD_UART_RX_RECEIVED, ahead of every publish and every
\* serial response, and it makes that send once
C23_SerialActivitySentFirst ==
  LastHandlerIs("app_uart_rx_callback")
  => /\ Len(calls) >= 2
     /\ calls[2].op = "xQueueSend"
     /\ SendsOf(LED_CMD_UART_RX_RECEIVED) = {2}

C23_Witness ==
  /\ LastHandlerIs("app_uart_rx_callback")
  /\ ~calls[1].frame.json
  /\ SendsOf(LED_CMD_UART_RX_RECEIVED) = {2}
  /\ CallsOf("uart_write_bytes") = {4}

\* C24: the first call app_mqtt_data_callback makes, for every topic, is the
\* xQueueSend of LED_CMD_MQTT_RX_RECEIVED, ahead of the serial write, and it
\* makes that send once
C24_SessionActivitySentFirst ==
  LastHandlerIs("app_mqtt_data_callback")
  => /\ Len(calls) >= 2
     /\ calls[2].op = "xQueueSend"
     /\ SendsOf(LED_CMD_MQTT_RX_RECEIVED) = {2}

C24_Witness ==
  /\ LastHandlerIs("app_mqtt_data_callback")
  /\ calls[1].topic /= mqtt_sub_topic_str
  /\ SendsOf(LED_CMD_MQTT_RX_RECEIVED) = {2}
  /\ Len(calls) = 2

\* ------------------------------------------ running without the LED task
\* app_main and the handlers when the queue gets up to its capacity in
\* commands; with led_task_started false nothing takes them out again
InitDegraded ==
  /\ PowerOn
  /\ mac = <<0, 26, 43, 60, 77, 94>>
  /\ budget = [uart |-> MaxFrames, wifi |-> MaxBacklogWifiEvents,
               mqtt |-> MaxSessionEvents]

NextDegraded ==
  \/ MainCreateQueue
  \/ MainLedInit
  \/ MainWifiInit
  \/ MainPrepareTopic
  \/ MainMqttInitStart
  \/ MainMqttInitMark
  \/ MainUartInitStart
  \/ MainUartInitMark
  \/ UartRxTaskStart
  \/ WifiEventStaStart
  \/ WifiEventStaDisconnected
  \/ IpEventStaGotIp
  \/ MqttEventConnected
  \/ UartRxFrame

SpecDegraded == InitDegraded /\ [][NextDegraded]_vars

\* C25: a failed led_init_and_start_task does not end app_main (after the
\* queue exists app_main returns only out of a failed wifi_conn_init_sta, and
\* it reaches its idle loop only after calling mqtt_comm_init and
\* uart_comm_init), and without the LED task the handlers still do their
\* relay work: a frame that was parsed is answered on the serial port, a
\* valid frame is handed to mqtt_comm_publish, and a CONNECTED status is
\* followed by mqtt_comm_subscribe, whether the queue took the LED command
\* or dropped it
C25_RelayWithoutIndicator ==
  /\ (main_pc = "returned" /\ led_queue_created)
       => (wifi_status_callback /\ ~s_wifi_initialized)
  /\ main_pc = "idle" => (mqtt_status_callback /\ s_rx_callback)
  /\ (~led_task_started /\ LastHandlerIs("app_uart_rx_callback")
       /\ calls[1].malloc_ok)
       => /\ Cardinality(CallsOf("uart_comm_transmit")) = 1
          /\ FrameIsValid(calls[1].frame)
               => Cardinality(CallsOf("mqtt_comm_publish")) = 1
  /\ (~led_task_started /\ LastHandlerIs("app_mqtt_status_callback")
       /\ calls[1].status = MQTT_CONN_STATUS_CONNECTED)
       => Cardinality(CallsOf("mqtt_comm_subscribe")) = 1

\* the LED task was never created, the queue is full, the command of the
\* last frame was dropped, and the frame was published and answered
C25_Witness ==
  /\ ~led_task_started
  /\ main_pc = "idle"
  /\ Len(led_command_queue) = QueueLength
  /\ LastHandlerIs("app_uart_rx_callback")
  /\ ~led_tried[Len(led_tried)].ok
  /\ CallsOf("esp_mqtt_client_publish") /= {}
  /\ CallsOf("uart_write_bytes") /= {}

\* ------------------------------------------ start-up and both relay paths
\* app_main with every failure choice, the station getting its address, the
\* session being accepted, one frame and one delivery
InitRelay ==
  /\ PowerOn
  /\ budget = [uart |-> MaxFrames, wifi |-> MaxDeliveryWifiEvents,
               mqtt |-> MaxTransmitEvents]

NextRelay ==
  \/ MainCreateQueue
  \/ MainLedInit
  \/ MainWifiInit
  \/ MainPrepareTopic
  \/ MainMqttInitStart
  \/ MainMqttInitMark
  \/ MainUartInitStart
  \/ MainUartInitMark
  \/ UartRxTaskStart
  \/ UartRxFrame
  \/ WifiEventStaStart
  \/ IpEventStaGotIp
  \/ MqttEventConnected
  \/ MqttEventData

SpecRelay == InitRelay /\ [][NextRelay]_vars

\* xQueueCreate returned NULL, or wifi_conn_init_sta returned an error
StartupFailed ==
  \/ main_pc /= "create_queue" /\ ~led_queue_created
  \/ wifi_status_callback /\ ~s_wifi_initialized

RelayCalls ==
  CallsOf("mqtt_comm_publish") \cup CallsOf("mqtt_comm_subscribe")
    \cup CallsOf("uart_comm_transmit")

\* C26: when creating the queue or wifi_conn_init_sta failed, app_main has
\* returned: mqtt_comm_init and uart_comm_init were not called (neither has
\* stored its callbacks), no frame and no MQTT event was ever handled, and
\* no publish, subscribe or serial transmit was requested
C26_HaltsWithoutQueueOrNetwork ==
  StartupFailed
  => /\ main_pc = "returned"
     /\ ~mqtt_status_callback /\ ~s_data_callback /\ ~s_is_initialized
     /\ ~s_rx_callback /\ ~s_uart_initialized
     /\ events.uart = 0 /\ events.mqtt = 0
     /\ n_subscribe_requests = 0
     /\ RelayCalls = {}

\* the queue and the LED task exist and wifi_conn_init_sta failed
C26_Witness ==
  /\ main_pc = "returned"
  /\ led_queue_created /\ led_task_started
  /\ wifi_status_callback /\ ~s_wifi_initialized

\* ------------------------------------------ the subscription topic
UpperHexDigits ==
  {"0","1","2","3","4","5","6","7","8","9","A","B","C","D","E","F"}

HexValue(c) == CHOOSE n \in 0..15 : HexDigit(n) = c

TopicWritten ==
  main_pc \in {"mqtt_init", "mqtt_init_mark", "uart_init", "uart_init_mark",
               "idle"}

\* C27: mqtt_sub_topic_str is empty until app_main prepares it, which it
\* does before it calls mqtt_comm_init; from then on it is "sub/data/"
\* followed by twelve uppercase hex digits that read back as the six bytes
\* of the hardware address, and every subscribe request and every delivery
\* that was recognised as addressed to the device used that value
C27_SubscriptionTopicFixedAtStartup ==
  LET n == Len(APP_MQTT_SUB_BASE_TOPIC)
      t == mqtt_sub_topic_str
  IN  /\ ~TopicWritten => t = <<>>
      /\ (mqtt_status_callback \/ s_is_initialized) => TopicWritten
      /\ TopicWritten =>
            /\ Len(t) = n + 12
            /\ SubSeq(t, 1, n) = <<"s","u","b","/","d","a","t","a","/">>
            /\ \A i \in 1..6 :
                 /\ t[n + 2 * i - 1] \in UpperHexDigits
                 /\ t[n + 2 * i] \in UpperHexDigits
                 /\ 16 * HexValue(t[n + 2 * i - 1]) + HexValue(t[n + 2 * i])
                      = mac[i]
      /\ \A i \in CallsOf("mqtt_comm_subscribe") : calls[i].topic = t
      /\ (LastHandlerIs("app_mqtt_data_callback")
           /\ CallsOf("uart_comm_transmit") /= {}) => calls[1].topic = t

C27_Witness ==
  /\ main_pc = "idle"
  /\ mac = <<0, 26, 43, 60, 77, 94>>
  /\ mqtt_sub_topic_str = <<"s","u","b","/","d","a","t","a","/",
                            "0","0","1","A","2","B","3","C","4","D","5","E">>
  /\ CallsOf("mqtt_comm_subscribe") /= {}

\* ------------------------------------------ the station's connected bit
\* the DISCONNECTED and CONNECTED_GOT_IP notifications so far, one for each
\* WIFI_EVENT_STA_DISCONNECTED and IP_EVENT_STA_GOT_IP handled
StationEvents ==
  SelectSeq(wifi_notified,
            LAMBDA st : st \in {WIFI_CONN_STATUS_DISCONNECTED,
                                WIFI_CONN_STATUS_CONNECTED_GOT_IP})

\* in the last handler's calls, every status notification comes after bit_op
BitUpdatedFirst(bit_op) ==
  /\ CallsOf(bit_op) /= {}
  /\ CallsOf("app_wifi_status_callback") /= {}
  /\ \A i \in CallsOf(bit_op) :
       \A j \in CallsOf("app_wifi_status_callback") : i < j

\* C28: wifi_conn_is_connected() is true exactly when the last of the
\* got-address and disconnected events handled was got-address, and false
\* before wifi_conn_init_sta and before the first got-address; ip_event_handler
\* sets the bit, and wifi_event_handler clears it on a disconnect, before
\* they call the status callback
C28_ConnectedBitFollowsEvents ==
  /\ wifi_conn_is_connected <=>
       /\ StationEvents /= <<>>
       /\ StationEvents[Len(StationEvents)] = WIFI_CONN_STATUS_CONNECTED_GOT_IP
  /\ ~s_wifi_initialized => ~wifi_conn_is_connected
  /\ LastHandlerIs("ip_event_handler")
       => /\ BitUpdatedFirst("xEventGroupSetBits")
          /\ wifi_conn_is_connected
  /\ (LastHandlerIs("wifi_event_handler")
       /\ calls[1].event_id = "WIFI_EVENT_STA_DISCONNECTED")
       => /\ BitUpdatedFirst("xEventGroupClearBits")
          /\ ~wifi_conn_is_connected

\* the station got its address, lost the access point and got an address
\* again
C28_Witness ==
  /\ StationEvents = <<WIFI_CONN_STATUS_CONNECTED_GOT_IP,
                       WIFI_CONN_STATUS_DISCONNECTED,
                       WIFI_CONN_STATUS_CONNECTED_GOT_IP>>
  /\ LastHandlerIs("ip_event_handler")
  /\ wifi_conn_is_connected

\* ------------------------------------------ mqtt_comm before initialization
\* C29: mqtt_comm_is_connected returns true only when the flag it read is
\* true, and it never gets to xSemaphoreTake while s_client_mutex is NULL
C29_IsConnectedNeedsNoLockWhenUninitialized ==
  \A t \in SessionTasks :
    api[t].op = "mqtt_comm_is_connected" =>
      /\ (api[t].pc = "idle" /\ api[t].ret = TRUE) => api[t].flag
      /\ api[t].pc = "take" => s_client_mutex /= "NULL"

\* C30: after mqtt_comm_init returned an error to app_main the component is
\* as before the call: not initialized, no client handle, no mutex, no
\* generated client id, no client started, and no callbacks stored
C30_FailedInitLeavesNothingBehind ==
  (main_pc \in {"uart_init", "uart_init_mark", "idle"} /\ ~s_is_initialized)
  => /\ s_client = "NULL"
     /\ s_client_mutex = "NULL"
     /\ ~s_default_client_id
     /\ mqtt_drv = "none"
     /\ ~mqtt_status_callback
     /\ ~s_data_callback

\* ------------------------------------------ the LED task between commands
\* C31: whenever led_control_task is at xQueueReceive (after its start and
\* after the whole pattern of any command), the output is high if and only
\* if current_led_steady_state is LED_CMD_MQTT_CONNECTED
C31_OutputHighIffSessionConnected ==
  led_task_started =>
    (gpio_level = 1 <=> current_led_steady_state = LED_CMD_MQTT_CONNECTED)

\* the solid-on state survived an activity blink and the queue is empty
C31_Witness ==
  /\ led_task_started
  /\ led_command_queue = <<>>
  /\ received_cmd = LED_CMD_MQTT_RX_RECEIVED
  /\ current_led_steady_state = LED_CMD_MQTT_CONNECTED
  /\ gpio_level = 1

\* ------------------------------------------ the LED task keeps up
\* app_main up to wifi_conn_init_sta, the WiFi events and the LED task; the
\* LED task, once a command is queued, is ready to run until it has taken
\* it, and the scheduler runs a task that stays ready
SpecLedFair ==
  Init /\ [][NextBacklog]_vars /\ WF_vars(LedProcessCommand)

\* C32 as stated: the i-th command the queue accepted is eventually taken
\* by the LED task, for every i
C32_AcceptedCommandIsTakenAlways ==
  \A i \in 1..(3 * MaxWifiEvents) :
    [] (Len(LedAccepted) >= i => <> (Len(led_taken) >= i))

\* C32, for a LED task that was created: the i-th command the queue
\* accepted is eventually taken and processed, and the task is back at its
\* queue
C32_AcceptedCommandIsTaken ==
  \A i \in 1..(3 * MaxWifiEvents) :
    [] ((led_task_started /\ Len(LedAccepted) >= i)
        => <> (Len(led_taken) >= i))

\* the LED task took five commands and its queue is empty
C32_Witness ==
  /\ led_task_started
  /\ Len(led_taken) >= 5
  /\ led_taken = LedAccepted
  /\ led_command_queue = <<>>

\* ------------------------------------------ the session's connected flag
\* the LED commands the status events of the MQTT client tried to send, one
\* for each MQTT_EVENT_CONNECTED, MQTT_EVENT_DISCONNECTED and MQTT_EVENT_ERROR
\* handled, in the order of the events
SessionStatusSends ==
  SelectSeq(led_tried, LAMBDA e : e.src = "mqtt"
                                  /\ e.cmd /= LED_CMD_MQTT_RX_RECEIVED)

LastSessionEventConnected ==
  /\ SessionStatusSends /= <<>>
  /\ SessionStatusSends[Len(SessionStatusSends)].cmd = LED_CMD_MQTT_CONNECTED

\* C33: between handlers, with the component initialized, s_is_connected is
\* true exactly when the last of the CONNECTED, DISCONNECTED and ERROR events
\* was CONNECTED; the status callback of such an event runs with the flag
\* already written; and a step that changes the flag is the handler of one
\* of these three events
C33_FlagFollowsSessionEvents ==
  /\ [](s_is_initialized => (s_is_connected <=> LastSessionEventConnected))
  /\ [](LastHandlerIs("app_mqtt_status_callback")
          => (s_is_connected
                <=> calls[1].status = MQTT_CONN_STATUS_CONNECTED))
  /\ [][s_is_connected' /= s_is_connected
          => /\ calls'[1].op = "app_mqtt_status_callback"
             /\ calls'[1].status \in {MQTT_CONN_STATUS_CONNECTED,
                                       MQTT_CONN_STATUS_DISCONNECTED,
                                       MQTT_CONN_STATUS_ERROR}
             /\ events'.mqtt = events.mqtt + 1]_vars

\* an error was reported on a session the client still has, after a delivery
C33_Witness ==
  /\ s_is_initialized
  /\ ~s_is_connected
  /\ mqtt_drv = "connected"
  /\ events.mqtt = 3
  /\ LastHandlerIs("app_mqtt_status_callback")
  /\ calls[1].status = MQTT_CONN_STATUS_ERROR
  /\ \E i \in 1..Len(led_tried) : led_tried[i].cmd = LED_CMD_MQTT_RX_RECEIVED

\* ------------------------------------------ subscribing on CONNECTED
\* C34: when app_mqtt_status_callback(CONNECTED) was the last session status
\* handler to run, it called mqtt_comm_subscribe and the call was not turned
\* away with ESP_ERR_INVALID_ARG, the answer of an uninitialized component
C34_ConnectedSubscribeReachesClient ==
  (/\ LastHandlerIs("app_mqtt_status_callback")
   /\ calls[1].status = MQTT_CONN_STATUS_CONNECTED)
  => /\ CallsOf("mqtt_comm_subscribe") /= {}
     /\ \A j \in CallsOf("mqtt_comm_subscribe") :
          calls[j].ret /= ESP_ERR_INVALID_ARG

\* ------------------------------------------ both locks, step by step
\* The tasks of the running program: app_main in its status loop (task_a),
\* the receive task (task_b in api, "uart" in tx) and the client task
\* ("mqtt" in both).

\* app_uart_rx_callback calls mqtt_comm_publish for a valid frame
RxPublish ==
  /\ uart_rx_task = "running"
  /\ s_rx_callback
  /\ tx["uart"].pc = "idle"
  /\ api["task_b"].op = "none"
  /\ SessionCall("task_b", "mqtt_comm_publish", "topic")

\* mqtt_comm_publish returned; app_uart_rx_callback answers with
\* uart_comm_transmit, which passes its checks and goes to xSemaphoreTake
RxRespond ==
  /\ ~aborted
  /\ api["task_b"].op = "mqtt_comm_publish"
  /\ api["task_b"].pc = "idle"
  /\ s_uart_initialized
  /\ api' = [api EXCEPT !["task_b"] = NoCall]
  /\ \E ret \in {ESP_OK, ESP_FAIL} :
       tx' = [tx EXCEPT !["uart"] = [pc |-> "take", ret |-> ret]]
  /\ UNCHANGED <<mainVars, led_command_queue, ledVars, wifiVars, topicVars,
                 mqttVars, uartVars, histVars, aborted, uart_wire>>

\* the status loop of app_main calls mqtt_comm_is_connected
MainStatusLoop ==
  /\ main_pc = "idle"
  /\ SessionCall("task_a", "mqtt_comm_is_connected", "none")

\* the statements under the lock; esp_mqtt_client_publish, _subscribe and
\* _unsubscribe, called from another task, wait in the client until the
\* client task has left the event handler it is running
LocksBody(t) ==
  /\ (/\ api[t].op \in UseOps
      /\ s_is_connected
      /\ s_client /= "NULL") => api["mqtt"].pc = "idle"
  /\ SessionBody(t)

\* a status event is delivered when the client task is not in a delivery
LocksEventBegin(op) ==
  /\ tx["mqtt"].pc = "idle"
  /\ EventBegin(op)

\* a message is delivered when the client task is not in a status event
LocksEventData ==
  /\ ~aborted
  /\ api["mqtt"].pc = "idle"
  /\ MqttEventDataToTransmit

\* the steps of operations in progress
LockSteps ==
  \/ \E t \in SessionTasks : SessionTake(t) \/ LocksBody(t) \/ SessionGive(t)
  \/ EventNotify
  \/ \E t \in TransmitTasks : TxTake(t) \/ TxWrite(t) \/ TxGive(t)

InitLocks ==
  /\ PowerOn
  /\ mac = <<0, 26, 43, 60, 77, 94>>
  /\ budget = [uart |-> 0, wifi |-> MaxDeliveryWifiEvents,
               mqtt |-> MaxTransmitEvents]

NextLocks ==
  \/ MainCreateQueue
  \/ MainLedInit
  \/ MainWifiInit
  \/ MainPrepareTopic
  \/ MainMqttInitStart
  \/ MainMqttInitMark
  \/ MainUartInitStart
  \/ MainUartInitMark
  \/ UartRxTaskStart
  \/ WifiEventStaStart
  \/ IpEventStaGotIp
  \/ RxPublish
  \/ RxRespond
  \/ MainStatusLoop
  \/ \E op \in EventOps : LocksEventBegin(op)
  \/ LocksEventData
  \/ LockSteps

SpecLocks == InitLocks /\ [][NextLocks]_vars

C36_InitializedMeansLockAndClient ==
  /\ [](s_is_initialized => (s_client_mutex /= "NULL" /\ s_client /= "NULL"))
  /\ [][(/\ api["task_a"].op = "mqtt_comm_deinit"
          /\ api["task_a"].pc /= "idle"
          /\ api'["task_a"].pc = "idle") => ~s_is_initialized']_vars

\* C37: no call that passed the initialization check and no event handler
\* is at xSemaphoreTake, between take and give, or at xSemaphoreGive once
\* mqtt_comm_deinit has deleted s_client_mutex, and a call that reached the
\* client did so with a handle it read under the lock
C37_NoUseOfDeletedLockOrClient ==
  /\ \A t \in SessionTasks :
       (/\ api[t].op \in UseOps \cup EventOps
        /\ api[t].pc \in {"take", "held", "give"}) => s_client_mutex /= "NULL"
  /\ \A t \in SessionTasks :
       api[t].cause \in {"accepted", "rejected"} => api[t].client /= "NULL"

\* C38: when a handler of main.c has been invoked, led_command_queue had
\* been created, and when the session status or the session delivery
\* handler has been invoked, mqtt_sub_topic_str had been written and is
\* not empty
C38_HandlersFindQueueAndTopic ==
  /\ calls /= <<>> => led_queue_created
  /\ (\/ LastHandlerIs("app_mqtt_status_callback")
      \/ LastHandlerIs("app_mqtt_data_callback"))
     => (TopicWritten /\ Len(mqtt_sub_topic_str) > 0)

C38_Witness ==
  /\ LastHandlerIs("app_mqtt_data_callback")
  /\ led_queue_created
  /\ Len(mqtt_sub_topic_str) > 0
  /\ \E i \in 1..Len(led_tried) : led_tried[i].src = "wifi"
  /\ \E i \in 1..Len(led_tried) : led_tried[i].cmd = LED_CMD_MQTT_CONNECTED

\* C39: a uart_comm_transmit call made by a handler gets past the
\* s_uart_initialized check: with data to send it reaches uart_write_bytes,
\* with none it returns ESP_ERR_INVALID_ARG
C39_TransmitFindsSerialInitialized ==
  \A j \in CallsOf("uart_comm_transmit") :
    IF calls[j].len /= 0
      THEN j + 1 \in CallsOf("uart_write_bytes")
      ELSE calls[j].ret = ESP_ERR_INVALID_ARG

\* ------------------------------------ the status handler told "connecting"
\* app_mqtt_status_callback(MQTT_CONN_STATUS_CONNECTING), invoked once the
\* handler is registered with the session
StatusCallbackConnecting ==
  /\ mqtt_status_callback
  /\ events.mqtt < budget.mqtt
  /\ \E env \in SubscribeEnvs :
       Commit(app_mqtt_status_callback(World(led_command_queue, s_is_connected),
                                       MQTT_CONN_STATUS_CONNECTING, env),
              "mqtt")
  /\ UNCHANGED <<mainVars, ledVars, wifiVars, topicVars, mqttVars, uartVars,
                 taskVars>>

NextConnecting ==
  \/ MainCreateQueue
  \/ MainLedInit
  \/ MainWifiInit
  \/ MainPrepareTopic
  \/ MainMqttInitStart
  \/ MainMqttInitMark
  \/ MainUartInitStart
  \/ MainUartInitMark
  \/ WifiEventStaStart
  \/ IpEventStaGotIp
  \/ MqttEventConnected
  \/ StatusCallbackConnecting

SpecConnecting == InitRelay /\ [][NextConnecting]_vars

\* C40: a call of the session status handler with Connecting makes no other
\* call: it tries no LED command and asks for no subscription, and it
\* leaves the LED queue, the subscription topic and the session state as
\* they were
C40_ConnectingChangesNothing ==
  [][(/\ events'.mqtt = events.mqtt + 1
      /\ calls' /= <<>>
      /\ calls'[1].op = "app_mqtt_status_callback"
      /\ calls'[1].status = MQTT_CONN_STATUS_CONNECTING)
     => /\ Len(calls') = 1
        /\ led_tried' = led_tried
        /\ led_command_queue' = led_command_queue
        /\ n_subscribe_requests' = n_subscribe_requests
        /\ mqtt_sub_topic_str' = mqtt_sub_topic_str
        /\ s_is_connected' = s_is_connected
        /\ s_is_initialized' = s_is_initialized
        /\ s_client' = s_client
        /\ mqtt_drv' = mqtt_drv]_vars

C40_Witness ==
  /\ LastHandlerIs("app_mqtt_status_callback")
  /\ calls[1].status = MQTT_CONN_STATUS_CONNECTING
  /\ s_is_connected
  /\ Len(led_command_queue) >= 2
  /\ Len(mqtt_sub_topic_str) > 0
====
